---- MODULE Spec2Model ----
(***************************************************************************)
(* State-machine model of the stock predictor backend: the file cache and  *)
(* data access layer of stock_fetcher.py, the RateLimiter of               *)
(* utils/rate_limiter.py and the lazily trained model of model.py.         *)
(*                                                                         *)
(* Time is counted in ticks of half a second, the finest delay the code    *)
(* uses (time.sleep(0.5) in get_stock_history).                            *)
(***************************************************************************)
EXTENDS Integers, Sequences, FiniteSets, TLC

\* ------------------------------------------------------------------------
\* Bounds of the model
\* ------------------------------------------------------------------------
MaxRows == 2        \* rows of the short price series the provider returns
MaxOps == 2         \* data-access / prediction operations per behaviour
MaxTicks == 1       \* explicit clock advances per behaviour
MaxLimited == 3     \* calls through the rate-limited wrapper per behaviour
MaxWindow == 2      \* largest time_window (seconds) of the RateLimiter
MaxMaxCalls == 2    \* largest max_calls of the RateLimiter
MaxThreads == 2     \* threads that call predict_stock at the same time
MaxSymbols == 11    \* symbols of the longest get_latest_prices request
MaxPred == 1        \* model.predict returns a value in -MaxPred..MaxPred
MaxRetries == 3     \* largest retries argument of get_history_with_retry

\* ------------------------------------------------------------------------
\* Program constants
\* ------------------------------------------------------------------------
CACHE_TTL_history == 3600
CACHE_TTL_latest == 300
TicksPerSecond == 2
batch_size == 5
LatestDays == 5
PredictDays == 180
MA50Window == 50
MA20Window == 20
RSIWindow == 14

NaN == 0 - 1        \* a missing value in a price column (pd.isna)
None == 0 - 2       \* Python None as a price

Symbols == {"AAPL", "MSFT"}

\* Python values passed as symbol that are not of type str, written as
\* strings: None, which is falsy, and the integer 123, which is not
PyNone == "<None>"
PyInt == "<123>"

InvalidSymbols == {"", PyNone, PyInt}

\* app.py: the indexes of the /indexes handler, name -> ticker
INDEXES == [n \in {"DOW", "S&P500"} |-> IF n = "DOW" THEN "^DJI" ELSE "^GSPC"]

IndexTickers == {INDEXES[n] : n \in DOMAIN INDEXES}
Days == {LatestDays, PredictDays}

CACHE_TTL == [history |-> CACHE_TTL_history, latest |-> CACHE_TTL_latest]

\* ------------------------------------------------------------------------
\* Price series (pandas DataFrame).  rows[i] is the Close of row i when the
\* frame has a Close column (NaN when missing); without a Close column only
\* the number of rows matters.  hasDate: the index has been materialised as
\* a Date column (reset_index).  jsonable: json.dump accepts the values of
\* the frame (its dates are strings, not pandas Timestamps).
\* columns: which of High, Low and Volume the frame has; high, low, volume:
\* their values in the last row (NaN when missing).
\* ------------------------------------------------------------------------
StatsColumns == {"High", "Low", "Volume"}

EmptyFrame ==
    [hasDate |-> FALSE, hasClose |-> FALSE, jsonable |-> TRUE, rows |-> <<>>,
     columns |-> {}, high |-> NaN, low |-> NaN, volume |-> NaN]

Frame(hasDate, hasClose, jsonable, rows) ==
    [hasDate |-> hasDate, hasClose |-> hasClose, jsonable |-> jsonable,
     rows |-> rows, columns |-> StatsColumns, high |-> Len(rows) + 1,
     low |-> Len(rows) - 1, volume |-> 100 * Len(rows)]

empty(df) == Len(df.rows) = 0

Ramp(n) == [i \in 1..n |-> i]

\* What the provider can hold for a symbol: nothing; a short rising series,
\* with dates json.dump accepts or with Timestamps; the same with its last
\* close missing, or without a Close column; or a rising series long enough
\* for the 50-row window.
RisingFrame == Frame(FALSE, TRUE, TRUE, Ramp(MaxRows))

TimestampFrame == Frame(FALSE, TRUE, FALSE, Ramp(MaxRows))

LastMissingFrame ==
    Frame(FALSE, TRUE, TRUE,
          [i \in 1..MaxRows |-> IF i = MaxRows THEN NaN ELSE i])

NoCloseFrame == Frame(FALSE, FALSE, TRUE, Ramp(MaxRows))

ShortFrames == {RisingFrame, TimestampFrame, LastMissingFrame, NoCloseFrame}

\* a series without a Volume column, and one whose last row has neither a
\* high nor a volume
NoVolumeFrame == [TimestampFrame EXCEPT !.columns = {"High", "Low"}]

StatsMissingFrame == [TimestampFrame EXCEPT !.high = NaN, !.volume = NaN]

LongFrame == Frame(FALSE, TRUE, TRUE, Ramp(MA50Window))

LongTimestampFrame == Frame(FALSE, TRUE, FALSE, Ramp(MA50Window))

\* the same, followed by a last row whose close is missing
LongLastMissingFrame ==
    Frame(FALSE, TRUE, FALSE, Append(Ramp(MA50Window), NaN))

\* long series that never fall: one that does not move at all, and one
\* that rises for thirty rows and then stays where it is
FlatFrame == Frame(FALSE, TRUE, TRUE, [i \in 1..MA50Window |-> 1])

PlateauFrame ==
    Frame(FALSE, TRUE, TRUE,
          [i \in 1..MA50Window |-> IF i <= 30 THEN i ELSE 30])

ProviderFrames ==
    {EmptyFrame, LongFrame, LongTimestampFrame, LongLastMissingFrame,
     FlatFrame, PlateauFrame}
    \cup ShortFrames

\* The provider's answer for a symbol, the same through a behaviour: the
\* call raises, or it returns the frame.
Raises == [raises |-> TRUE, frame |-> EmptyFrame]

Answers(frames) == {Raises} \cup [raises : {FALSE}, frame : frames]

reset_index(df) == [df EXCEPT !.hasDate = TRUE]

\* ------------------------------------------------------------------------
\* Cache files
\* ------------------------------------------------------------------------
get_cache_path(symbol, type, days) == <<symbol, type, days>>

\* The symbol lists passed to the batch operations: two lists of the same
\* length and a longer one, without repeated symbols as at the call sites.
SymbolLists == {<<"AAPL">>, <<"MSFT">>, <<"AAPL", "MSFT">>}

TOP_STOCKS ==
    <<"AAPL", "MSFT", "GOOGL", "AMZN", "TSLA", "NVDA", "META", "BRK-B",
      "JPM", "V">>

\* Requests of one symbol up to MaxSymbols symbols: the first symbols of
\* TOP_STOCKS followed by the index tickers
Listed == TOP_STOCKS \o <<"^DJI", "^GSPC">>
LongLists == {SubSeq(Listed, 1, n) : n \in 1..MaxSymbols}
ListedSymbols == {Listed[i] : i \in 1..Len(Listed)}

CachePaths ==
    {get_cache_path(s, "history", d) :
        s \in Symbols \cup IndexTickers \cup {PyInt}, d \in Days}
        \cup {get_cache_path("batch", "latest", Len(l)) : l \in SymbolLists}
        \cup {get_cache_path(s, "history", LatestDays) : s \in ListedSymbols}
        \cup {get_cache_path("batch", "latest", Len(l)) : l \in LongLists}

NoPrices == <<>>

\* kind: "partial" is a file whose JSON text was cut short, "split" the
\* orient="split" dictionary of a DataFrame, "prices" a flat symbol->price map
NoFile ==
    [exists |-> FALSE, mtime |-> 0, kind |-> "none",
     frame |-> EmptyFrame, prices |-> NoPrices]

\* a variant that still accepts an entry of exactly TTL age
is_cache_valid_inclusive(f, t, ttl) ==
    IF ~f.exists THEN FALSE
    ELSE (t - f.mtime) <= ttl * TicksPerSecond

is_cache_valid(f, t, ttl) ==
    IF ~f.exists THEN FALSE
    ELSE (t - f.mtime) < ttl * TicksPerSecond

\* outcome: "ok" the dump completes; "partial" json.dump raises (a value
\* that is not JSON serialisable, a failed write) after open(path, 'w') has
\* truncated the file, and the exception is swallowed.  A reader that opens
\* the file while a dump is still under way sees the same cut-short text.
SaveOutcomes == {"ok", "partial"}

\* json.dump of a frame raises TypeError on a Timestamp
dump_outcome(df) == IF df.jsonable THEN "ok" ELSE "partial"

save_to_cache(isFrame, frame, prices, f, t, outcome) ==
    IF outcome = "partial"
    THEN [exists |-> TRUE, mtime |-> t, kind |-> "partial",
          frame |-> EmptyFrame, prices |-> NoPrices]
    ELSE IF isFrame
    THEN [exists |-> TRUE, mtime |-> t, kind |-> "split",
          frame |-> frame, prices |-> NoPrices]
    ELSE [exists |-> TRUE, mtime |-> t, kind |-> "prices",
          frame |-> EmptyFrame, prices |-> prices]

\* The value load_from_cache returns, with its Python type.  A "split"
\* dictionary has only list values, so the loop over its items rebuilds no
\* DataFrame and the elif branch is never taken: the caller gets the dict.
LoadedNone ==
    [pytype |-> "NoneType", kind |-> "none",
     frame |-> EmptyFrame, prices |-> NoPrices]

\* a variant whose parse failure is not turned into None
load_from_cache_unguarded(f) ==
    IF ~f.exists THEN LoadedNone
    ELSE [pytype |-> "dict", kind |-> f.kind,
          frame |-> f.frame, prices |-> f.prices]

load_from_cache(f) ==
    IF ~f.exists \/ f.kind = "partial" THEN LoadedNone
    ELSE [pytype |-> "dict", kind |-> f.kind,
          frame |-> f.frame, prices |-> f.prices]

\* file_age as is_cache_valid computes it, NoAge when there is no file
NoAge == 0 - 1

file_age(f, t) == IF f.exists THEN t - f.mtime ELSE NoAge

\* ------------------------------------------------------------------------
\* CacheManager, constructed on the cache directory with the TTLs of
\* CACHE_TTL.  A file is named key_type_days.json.
\* ------------------------------------------------------------------------
ttl_config == CACHE_TTL

\* the parts of a file name, among those in use, that contain "latest"
LatestParts == {"latest"}

\* a manager that applies the history TTL to every file
ttl_history_for_all(cache_path) == ttl_config.history

\* lines 71-74: the TTL chosen from the file name
ttl_of_name(cache_path) ==
    IF cache_path[1] \in LatestParts \/ cache_path[2] \in LatestParts
    THEN ttl_config.latest
    ELSE ttl_config.history

\* CacheManager.is_valid
is_valid(f, t, ttl) ==
    IF ~f.exists THEN FALSE
    ELSE (t - f.mtime) < ttl * TicksPerSecond

\* CacheManager.clear_expired at time t: the directory afterwards
clear_expired(fs, t) ==
    [cache_path \in DOMAIN fs |->
        IF fs[cache_path].exists
              /\ ~is_valid(fs[cache_path], t, ttl_of_name(cache_path))
        THEN NoFile
        ELSE fs[cache_path]]

\* ------------------------------------------------------------------------
\* The two caches on Python values.  A value is a float, None, a
\* DataFrame, or a dict; split marks the dict that to_dict(orient="split")
\* builds, with the keys index, columns and data and lists as values.  A
\* cache file holds the JSON text of {"timestamp", "data"}, or a text that
\* was cut short.
\* ------------------------------------------------------------------------
PyValue(pytype, split, value, frame, items) ==
    [pytype |-> pytype, split |-> split, value |-> value, frame |-> frame,
     items |-> items]

PyNoneValue == PyValue("NoneType", FALSE, 0, EmptyFrame, <<>>)
PyFloat(x) == PyValue("float", FALSE, x, EmptyFrame, <<>>)
PyFrame(df) == PyValue("DataFrame", FALSE, 0, df, <<>>)
PyDict(items) == PyValue("dict", FALSE, 0, EmptyFrame, items)

\* df.to_dict(orient="split")
to_dict_split(v) == [v EXCEPT !.pytype = "dict", !.split = TRUE]

\* pd.DataFrame(data=..., index=..., columns=...) on a split dictionary
DataFrameOf(v) == [v EXCEPT !.pytype = "DataFrame", !.split = FALSE]

\* json.dump accepts the value: no DataFrame and no Timestamp inside
RECURSIVE serialisable(_)
serialisable(v) ==
    IF v.pytype = "DataFrame" THEN FALSE
    ELSE IF v.pytype = "dict" /\ v.split THEN v.frame.jsonable
    ELSE IF v.pytype = "dict"
    THEN \A k \in DOMAIN v.items : serialisable(v.items[k])
    ELSE TRUE

NoCacheFile == [exists |-> FALSE, mtime |-> 0, text |-> "none",
                data |-> PyNoneValue]

\* open(cache_path, 'w') and json.dump(cache_data, f) at time t
dump(data, t) ==
    IF serialisable(data)
    THEN [exists |-> TRUE, mtime |-> t, text |-> "json", data |-> data]
    ELSE [exists |-> TRUE, mtime |-> t, text |-> "partial",
          data |-> PyNoneValue]

\* stock_fetcher.save_to_cache on a Python value: the file afterwards
fetcher_save_to_cache(data, t) ==
    IF data.pytype = "dict"
    THEN dump([data EXCEPT !.items =
                  [k \in DOMAIN @ |->
                      IF @[k].pytype = "DataFrame"
                      THEN to_dict_split(@[k]) ELSE @[k]]], t)
    ELSE IF data.pytype = "DataFrame"
    THEN dump(to_dict_split(data), t)
    ELSE dump(data, t)

\* stock_fetcher.load_from_cache: the value returned.  The items of a
\* split dictionary are lists, and the elif is behind the same test.
fetcher_load_from_cache(f) ==
    IF ~f.exists \/ f.text # "json" THEN PyNoneValue
    ELSE IF f.data.pytype = "dict"
    THEN IF f.data.split
         THEN f.data
         ELSE [f.data EXCEPT !.items =
                  [k \in DOMAIN @ |->
                      IF @[k].pytype = "dict" /\ @[k].split
                      THEN DataFrameOf(@[k]) ELSE @[k]]]
    ELSE f.data

\* CacheManager._prepare_data_for_cache
RECURSIVE prepare_data_for_cache(_)
prepare_data_for_cache(data) ==
    IF data.pytype = "dict"
    THEN [data EXCEPT !.items =
            [k \in DOMAIN @ |-> prepare_data_for_cache(@[k])]]
    ELSE IF data.pytype = "DataFrame"
    THEN to_dict_split(data)
    ELSE data

\* CacheManager._restore_data_from_cache
RECURSIVE restore_data_from_cache(_)
restore_data_from_cache(data) ==
    IF data.pytype = "dict"
    THEN IF data.split
         THEN DataFrameOf(data)
         ELSE [data EXCEPT !.items =
                 [k \in DOMAIN @ |-> restore_data_from_cache(@[k])]]
    ELSE data

\* CacheManager.save
save(data, t) == dump(prepare_data_for_cache(data), t)

\* CacheManager.load
load(f) ==
    IF ~f.exists \/ f.text # "json" THEN PyNoneValue
    ELSE restore_data_from_cache(f.data)

\* the payloads: a price series, symbol -> price, symbol -> price series
SeriesPayloads ==
    {PyFrame(df) : df \in {EmptyFrame, RisingFrame, TimestampFrame,
                            LastMissingFrame}}

PricePayloads ==
    {PyDict(items) :
        items \in UNION {[S -> {PyFloat(1), PyFloat(NaN), PyNoneValue}] :
                            S \in SUBSET Symbols}}

SeriesMapPayloads ==
    {PyDict(items) :
        items \in UNION {[S -> {PyFrame(RisingFrame),
                                PyFrame(TimestampFrame)}] :
                            S \in SUBSET Symbols \ {{}}}}

Payloads == SeriesPayloads \cup PricePayloads \cup SeriesMapPayloads

\* the file found at the cache path: none, one cut short, one written
\* earlier
FileStates ==
    {NoCacheFile, dump(PyFrame(RisingFrame), 0), dump(PyDict(<<>>), 0)}

\* ------------------------------------------------------------------------
\* Data access layer.  st = [now, files, log]; log holds the times of the
\* calls to the provider (yf.Ticker(symbol).history), mkt its answers.
\* Every result records the age and kind of the cache file it looked up.
\* ------------------------------------------------------------------------
get_stock_history(st, mkt, symbol, days) ==
    LET cache_path == get_cache_path(symbol, "history", days)
        f == st.files[cache_path]
        data == load_from_cache(f)
        slept == [st EXCEPT !.now = st.now + (TicksPerSecond \div 2)]
        called == [slept EXCEPT !.log = Append(slept.log, slept.now)]
        df == reset_index(mkt[symbol].frame)
        looked == [age |-> file_age(f, st.now), kind |-> f.kind]
    IN  IF is_cache_valid(f, st.now, CACHE_TTL.history)
            /\ data.pytype # "NoneType" /\ data.pytype # "DataFrame"
        THEN \* data.empty on a dict: AttributeError, outside the try
             [st |-> st, raised |-> TRUE, frame |-> EmptyFrame,
              looked |-> looked]
        ELSE IF mkt[symbol].raises
        THEN [st |-> called, raised |-> FALSE, frame |-> EmptyFrame,
              looked |-> looked]
        ELSE IF empty(mkt[symbol].frame)
        THEN [st |-> called, raised |-> FALSE, frame |-> EmptyFrame,
              looked |-> looked]
        ELSE [st |-> [called EXCEPT !.files[cache_path] =
                        save_to_cache(TRUE, df, NoPrices, f, called.now,
                                      dump_outcome(df))],
              raised |-> FALSE, frame |-> df, looked |-> looked]

\* result[symbol] = v on a Python dict
DictSet(d, k, v) == [x \in (DOMAIN d) \cup {k} |-> IF x = k THEN v ELSE d[x]]

NoResult == <<>>

RECURSIVE stock_data_loop(_, _, _, _, _, _)
stock_data_loop(st, mkt, symbols, days, i, result) ==
    IF i > Len(symbols)
    THEN [st |-> st, raised |-> FALSE, result |-> result]
    ELSE LET r == get_stock_history(st, mkt, symbols[i], days)
         IN  IF r.raised
             THEN [st |-> r.st, raised |-> TRUE, result |-> NoResult]
             ELSE stock_data_loop(r.st, mkt, symbols, days, i + 1,
                                  DictSet(result, symbols[i], r.frame))

get_stock_data(st, mkt, symbols, days) ==
    stock_data_loop(st, mkt, symbols, days, 1, NoResult)

\* a variant that reads the first row, df['Close'].iloc[0]
latest_price_first_row(df) ==
    IF ~empty(df) /\ df.hasClose
    THEN IF df.rows[1] # NaN THEN df.rows[1] ELSE None
    ELSE None

\* df['Close'].iloc[-1], float(...) unless pd.isna
latest_price(df) ==
    IF ~empty(df) /\ df.hasClose
    THEN LET latest == df.rows[Len(df.rows)]
         IN  IF latest # NaN THEN latest ELSE None
    ELSE None

\* a variant that pauses before the first batch too
pause_before_every_batch(i) == (i - 1) % batch_size = 0

\* lines 148-153: symbols[i - 1] opens a batch other than the first
pause_before(i) == (i - 1) % batch_size = 0 /\ (i - 1) > 0

\* the batches processed so far, with symbols[i - 1] as the next symbol
next_in_batch(batches, symbols, i) ==
    IF (i - 1) % batch_size = 0
    THEN Append(batches, <<symbols[i]>>)
    ELSE [batches EXCEPT ![Len(batches)] = Append(@, symbols[i])]

NoProgress == [pauses |-> 0, batches |-> <<>>]

\* The fetch loop of get_latest_prices over symbols[i..]: a one-second pause
\* before every batch but the first, and an inner try around each symbol.
\* fetched remembers how the fetch of each symbol ended.
RECURSIVE latest_prices_loop(_, _, _, _, _, _, _)
latest_prices_loop(st, mkt, symbols, i, prices, fetched, done) ==
    IF i > Len(symbols)
    THEN [st |-> st, prices |-> prices, fetched |-> fetched,
          pauses |-> done.pauses, batches |-> done.batches]
    ELSE LET pause == pause_before(i)
             st1 == IF pause
                    THEN [st EXCEPT !.now = st.now + TicksPerSecond]
                    ELSE st
             r == get_stock_history(st1, mkt, symbols[i], LatestDays)
             price == IF r.raised THEN None ELSE latest_price(r.frame)
         IN  latest_prices_loop(r.st, mkt, symbols, i + 1,
                 DictSet(prices, symbols[i], price),
                 DictSet(fetched, symbols[i],
                         [raised |-> r.raised, frame |-> r.frame,
                          looked |-> r.looked]),
                 [pauses |-> IF pause THEN done.pauses + 1 ELSE done.pauses,
                  batches |-> next_in_batch(done.batches, symbols, i)])

get_latest_prices(st, mkt, symbols, saveOutcome) ==
    LET cache_path == get_cache_path("batch", "latest", Len(symbols))
        f == st.files[cache_path]
        cached == load_from_cache(f)
        r == latest_prices_loop(st, mkt, symbols, 1, NoPrices, NoResult,
                                NoProgress)
        looked == [age |-> file_age(f, st.now), kind |-> f.kind]
    IN  IF is_cache_valid(f, st.now, CACHE_TTL.latest)
            /\ cached.pytype # "NoneType"
        THEN [st |-> st, hit |-> TRUE, prices |-> cached.prices,
              fetched |-> NoResult, pauses |-> 0, batches |-> <<>>,
              looked |-> looked]
        ELSE [st |-> [r.st EXCEPT !.files[cache_path] =
                        save_to_cache(FALSE, EmptyFrame, r.prices,
                                      r.st.files[cache_path], r.st.now,
                                      saveOutcome)],
              hit |-> FALSE, prices |-> r.prices,
              fetched |-> r.fetched, pauses |-> r.pauses,
              batches |-> r.batches, looked |-> looked]

\* ------------------------------------------------------------------------
\* model.fetch_stock_stats
\* error: "" stands for a result without an error key
\* ------------------------------------------------------------------------
NoStats ==
    [last |-> None, high |-> None, low |-> None, volume |-> None,
     error |-> ""]

StatsError(msg) == [NoStats EXCEPT !.error = msg]

\* a variant that hands a missing value through
native_unchecked(x) == x

\* float(x) if not pd.isna(x) else None
native(x) == IF x = NaN THEN None ELSE x

missing_columns(df) ==
    (IF df.hasClose THEN {} ELSE {"Close"}) \cup (StatsColumns \ df.columns)

\* df.iloc[-1] turned into the four native values
latest_stats(df) ==
    [last |-> native(df.rows[Len(df.rows)]), high |-> native(df.high),
     low |-> native(df.low), volume |-> native(df.volume), error |-> ""]

fetch_stock_stats(st, mkt, symbol, days) ==
    LET r == get_stock_history(st, mkt, symbol, days)
        df == r.frame
    IN  [st |-> r.st,
         raised |-> FALSE,
         history |-> r,
         stats |->
            IF r.raised THEN StatsError("Error fetching data")
            ELSE IF empty(df) THEN StatsError("No data found")
            ELSE IF missing_columns(df) # {}
            THEN StatsError("Missing data columns")
            ELSE latest_stats(df)]

\* ------------------------------------------------------------------------
\* app.py: the HTTP handlers.  A handler answers with a status and the keys
\* of its JSON object; raise HTTPException(status_code=500) is the answer
\* 500 with the single key detail.
\* ------------------------------------------------------------------------
StatsKeys(stats) ==
    {"last", "high", "low", "volume"}
        \cup (IF stats.error = "" THEN {} ELSE {"error"})

ServerError(st) ==
    [st |-> st, status |-> 500, keys |-> {"detail"}, stats |-> NoStats]

\* GET /stock-stats
stock_stats(st, mkt, symbol, days) ==
    LET r == get_stock_data(st, mkt, <<symbol>>, days)
    IN  IF r.raised THEN ServerError(r.st)
        ELSE LET df == r.result[symbol]
                 stats ==
                    IF symbol \notin DOMAIN r.result \/ empty(df)
                    THEN StatsError("No data found")
                    ELSE IF missing_columns(df) # {}
                    THEN StatsError("Missing data columns")
                    ELSE latest_stats(df)
             IN  [st |-> r.st, status |-> 200, keys |-> StatsKeys(stats),
                  stats |-> stats]

\* json.dumps(content, allow_nan=False) of the JSONResponse raises
\* ValueError on a float nan
renders(values) == \A k \in DOMAIN values : values[k] # NaN

\* float(data[ticker]['Close'].iloc[-1]), or None
index_entry(data, ticker) ==
    IF ticker \in DOMAIN data /\ ~empty(data[ticker])
       /\ data[ticker].hasClose
    THEN data[ticker].rows[Len(data[ticker].rows)]
    ELSE None

\* GET /indexes
get_indexes(st, mkt) ==
    LET r == get_stock_data(st, mkt, <<INDEXES["DOW"], INDEXES["S&P500"]>>,
                            LatestDays)
        result == [n \in DOMAIN INDEXES |-> index_entry(r.result, INDEXES[n])]
    IN  IF r.raised
        THEN [st |-> r.st, raised |-> TRUE, status |-> 200, keys |-> {},
              prices |-> NoPrices]
        ELSE IF renders(result)
        THEN [st |-> r.st, raised |-> FALSE, status |-> 200,
              keys |-> DOMAIN result, prices |-> result]
        ELSE [st |-> r.st, raised |-> FALSE, status |-> 500,
              keys |-> {"detail"}, prices |-> NoPrices]

\* ------------------------------------------------------------------------
\* RateLimiter.  calls is the deque of recorded timestamps, oldest first.
\* ------------------------------------------------------------------------
\* a limiter that never drops a recorded call
keep_calls(calls, t, window) == calls

RECURSIVE popleft_old(_, _, _)
popleft_old(calls, t, window) ==
    IF calls # <<>> /\ t - Head(calls) >= window
    THEN popleft_old(Tail(calls), t, window)
    ELSE calls

\* One call of the wrapped function arriving at time t.  invoked is the
\* time at which func(*args) runs: t, or t plus the sleep.
wrapped(lim, t) ==
    LET window == lim.time_window * TicksPerSecond
        kept == popleft_old(lim.calls, t, window)
        sleep_time == IF Len(kept) >= lim.max_calls
                      THEN window - (t - kept[1])
                      ELSE 0
    IN  [lim |-> [lim EXCEPT !.calls = Append(kept, t)],
         slept |-> IF sleep_time > 0 THEN sleep_time ELSE 0,
         invoked |-> IF sleep_time > 0 THEN t + sleep_time ELSE t]

\* The same call step by step.  Lines 44-54: the clock is read, old calls
\* are dropped and the call either goes on at once or sleeps first; stamp
\* is the value of the local variable now.
NoCall == [pc |-> "idle", stamp |-> 0, sleep_time |-> 0]

\* a limiter that turns the call away when the window is full
admission_rejecting(lim, t) ==
    LET kept == popleft_old(lim.calls, t, lim.time_window * TicksPerSecond)
    IN  [calls |-> kept,
         call |-> [pc |-> IF Len(kept) >= lim.max_calls
                          THEN "rejected" ELSE "ready",
                   stamp |-> t, sleep_time |-> 0]]

admission(lim, t) ==
    LET window == lim.time_window * TicksPerSecond
        kept == popleft_old(lim.calls, t, window)
        sleep_time == IF Len(kept) >= lim.max_calls
                      THEN window - (t - kept[1])
                      ELSE 0
    IN  [calls |-> kept,
         call |-> [pc |-> IF sleep_time > 0 THEN "sleeping" ELSE "ready",
                   stamp |-> t,
                   sleep_time |-> IF sleep_time > 0 THEN sleep_time ELSE 0]]

\* a limiter that records a call only once the function has returned
record_call_on_return(calls, stamp, func_raised) ==
    IF func_raised THEN calls ELSE Append(calls, stamp)

\* lines 56-62: the deque after the call, whatever func does
record_call(calls, stamp, func_raised) == Append(calls, stamp)

\* lines 58-62: the result is returned, the exception raised again
wrapped_raises(func_raised) == func_raised

\* ------------------------------------------------------------------------
\* Feature columns of predict_stock: which rows come out as NaN
\* ------------------------------------------------------------------------
delta_isna(c, i) == i = 1 \/ c[i] = NaN \/ c[i - 1] = NaN

\* delta.where(delta > 0, 0) and -delta.where(delta < 0, 0)
gain_term(c, i) ==
    IF ~delta_isna(c, i) /\ c[i] - c[i - 1] > 0 THEN c[i] - c[i - 1] ELSE 0

loss_term(c, i) ==
    IF ~delta_isna(c, i) /\ c[i] - c[i - 1] < 0 THEN c[i - 1] - c[i] ELSE 0

\* the rolling means of gain and loss exist from row 14 on; rs = gain / loss
\* is NaN exactly for 0/0 (no term of the window is positive), while x/0 is
\* inf and gives an RSI of 100
calculate_rsi_isna(c, i) ==
    \/ i < RSIWindow
    \/ \A j \in (i - RSIWindow + 1)..i :
          gain_term(c, j) = 0 /\ loss_term(c, j) = 0

\* the sums of the gains and of the losses over the window that ends at
\* row i, the terms before the first row counting for nothing
RECURSIVE window_gain(_, _, _)
window_gain(c, i, n) ==
    IF n = 0 \/ i < 1 THEN 0
    ELSE gain_term(c, i) + window_gain(c, i - 1, n - 1)

RECURSIVE window_loss(_, _, _)
window_loss(c, i, n) ==
    IF n = 0 \/ i < 1 THEN 0
    ELSE loss_term(c, i) + window_loss(c, i - 1, n - 1)

\* calculate_rsi at row i: 100 - 100 / (1 + gain / loss) is the fraction
\* num / den = 100 * gain / (gain + loss), also when loss is zero and
\* gain is not (rs = inf); isna when it is NaN
calculate_rsi(c, i) ==
    LET gain == window_gain(c, i, RSIWindow)
        loss == window_loss(c, i, RSIWindow)
    IN  [isna |-> i < RSIWindow \/ (gain = 0 /\ loss = 0),
         num |-> 100 * gain, den |-> gain + loss]

\* rolling(window=w).mean() and .std(): NaN until w rows, NaN if any is NaN
rolling_isna(c, w, i) ==
    i < w \/ \E j \in (i - w + 1)..i : c[j] = NaN

\* pct_change(): the first row, or a missing close on either side
pct_change_isna(c, i) == delta_isna(c, i)

\* rows that survive df.dropna()
usable_rows(df) ==
    {i \in 1..Len(df.rows) :
        /\ df.rows[i] # NaN
        /\ i = Len(df.rows)
              => \A c \in df.columns :
                    (CASE c = "High" -> df.high [] c = "Low" -> df.low
                       [] c = "Volume" -> df.volume) # NaN
        /\ ~pct_change_isna(df.rows, i)
        /\ ~rolling_isna(df.rows, MA50Window, i)
        /\ ~rolling_isna(df.rows, MA20Window, i)
        /\ ~calculate_rsi_isna(df.rows, i)}

\* ------------------------------------------------------------------------
\* predict_stock, up to the fit of the shared model
\* ------------------------------------------------------------------------
n_simulations == 100
HorizonDays == 7

PredictResult(st, raised, error, trained, fit, predicts) ==
    [st |-> st, raised |-> raised, error |-> error, trained |-> trained,
     fit |-> fit, predicts |-> predicts]

\* a validation that tests only the truth value of symbol
valid_symbol_truthy(symbol) == symbol # "" /\ symbol # PyNone

\* line 171: if not symbol or not isinstance(symbol, str)
valid_symbol(symbol) ==
    /\ symbol # "" /\ symbol # PyNone
    /\ symbol # PyInt

\* a variant that fits on every call, without looking at the trained flag
predict_stock_refit(st, mkt, symbol, trained) ==
    LET r == get_stock_history(st, mkt, symbol, PredictDays)
        df == r.frame
    IN  IF ~valid_symbol(symbol)
        THEN PredictResult(st, FALSE, "Invalid symbol input", trained, FALSE, 0)
        ELSE IF r.raised
        THEN PredictResult(r.st, TRUE, "", trained, FALSE, 0)
        ELSE IF empty(df)
        THEN PredictResult(r.st, FALSE, "No data available", trained, FALSE, 0)
        ELSE IF ~df.hasClose
        THEN PredictResult(r.st, TRUE, "", trained, FALSE, 0)
        ELSE IF usable_rows(df) = {}
        THEN PredictResult(r.st, FALSE, "Insufficient data", trained, FALSE, 0)
        ELSE PredictResult(r.st, FALSE, "", TRUE, TRUE,
                           HorizonDays * n_simulations)

predict_stock(st, mkt, symbol, trained) ==
    LET r == get_stock_history(st, mkt, symbol, PredictDays)
        df == r.frame
    IN  IF ~valid_symbol(symbol)
        THEN PredictResult(st, FALSE, "Invalid symbol input", trained, FALSE, 0)
        ELSE IF r.raised
        THEN PredictResult(r.st, TRUE, "", trained, FALSE, 0)
        ELSE IF empty(df)
        THEN PredictResult(r.st, FALSE, "No data available", trained, FALSE, 0)
        ELSE IF ~df.hasClose
        THEN \* df['Close'] raises KeyError
             PredictResult(r.st, TRUE, "", trained, FALSE, 0)
        ELSE IF usable_rows(df) = {}
        THEN PredictResult(r.st, FALSE, "Insufficient data", trained, FALSE, 0)
        ELSE PredictResult(r.st, FALSE, "", TRUE, ~trained,
                           HorizonDays * n_simulations)

\* ------------------------------------------------------------------------
\* The response of predict_stock (lines 239-257).  Row i of a history
\* carries the date FirstDay + i, counted in days of a year of 365 days;
\* the Date values are pandas Timestamps unless the frame is one json.dump
\* accepts, whose dates are strings.
\* ------------------------------------------------------------------------
FirstDay == 6

MonthDays == <<31, 28, 31, 30, 31, 30, 31, 31, 30, 31, 30, 31>>

date_of_row(i) == FirstDay + i

is_timestamp(df) == ~df.jsonable

\* strftime('%Y-%m-%d') of a day of the year: its month and day of month
RECURSIVE month_day(_, _)
month_day(d, m) ==
    IF d <= MonthDays[m] THEN <<m, d>> ELSE month_day(d - MonthDays[m], m + 1)

strftime(d) == month_day(d, 1)

\* df['Date'].iloc[-1] after dropna
last_date(df) ==
    LET kept == usable_rows(df)
    IN  date_of_row(CHOOSE i \in kept : \A j \in kept : j <= i)

\* a variant that starts the forward dates on the last historical day
future_dates_from_last(df) ==
    [i \in 1..HorizonDays |->
        IF is_timestamp(df) THEN strftime(last_date(df) + i - 1)
        ELSE <<"Day+", i>>]

future_dates(df) ==
    [i \in 1..HorizonDays |->
        IF is_timestamp(df) THEN strftime(last_date(df) + i)
        ELSE <<"Day+", i>>]

NoResponse ==
    [future_dates |-> <<>>, predicted_prices |-> 0,
     confidence_intervals |-> 0]

\* the two numeric lists are given by their lengths: one entry for each
\* iteration of the loop over range(7)
predict_response(df) ==
    [future_dates |-> future_dates(df), predicted_prices |-> HorizonDays,
     confidence_intervals |-> HorizonDays]

\* ------------------------------------------------------------------------
\* The simulation loop of predict_stock (lines 221-236).  A sample is the
\* list of the n_simulations values model.predict returned for one day,
\* given as a bag: value -> number of occurrences.  Results are kept in
\* hundredths, so that the interpolated percentiles stay integers.
\* ------------------------------------------------------------------------
PredValues == (0 - MaxPred)..MaxPred

TwoValued(lo, hi, k) ==
    [v \in {lo, hi} |-> IF lo = hi THEN n_simulations
                        ELSE IF v = lo THEN k ELSE n_simulations - k]

Samples ==
    {TwoValued(lo, hi, k) :
        lo \in PredValues, hi \in PredValues, k \in 1..n_simulations}

count_below(sample, v) ==
    LET below == {w \in DOMAIN sample : w < v}
        RECURSIVE total(_)
        total(S) == IF S = {} THEN 0
                    ELSE LET w == CHOOSE x \in S : TRUE
                         IN  sample[w] + total(S \ {w})
    IN  total(below)

\* element j (from 0) of the sorted sample
order_statistic(sample, j) ==
    CHOOSE v \in DOMAIN sample :
        /\ sample[v] > 0
        /\ count_below(sample, v) <= j
        /\ j < count_below(sample, v) + sample[v]

\* np.percentile(predictions, q), linear interpolation between the two
\* order statistics around position q/100 * (n - 1)
percentile(sample, q) ==
    LET pos == q * (n_simulations - 1)
        j == pos \div 100
        frac == pos % 100
        a == order_statistic(sample, j)
        b == IF j + 1 < n_simulations
             THEN order_statistic(sample, j + 1) ELSE a
    IN  100 * a + frac * (b - a)

\* a variant that takes np.mean(predictions) as the point forecast
median_as_mean(sample) ==
    LET RECURSIVE weighted(_)
        weighted(S) == IF S = {} THEN 0
                       ELSE LET w == CHOOSE x \in S : TRUE
                            IN  w * sample[w] + weighted(S \ {w})
    IN  (100 * weighted(DOMAIN sample)) \div n_simulations

\* np.median(predictions): the mean of the two middle order statistics
\* when the sample has an even size
median(sample) ==
    IF n_simulations % 2 = 0
    THEN 50 * (order_statistic(sample, n_simulations \div 2 - 1)
               + order_statistic(sample, n_simulations \div 2))
    ELSE 100 * order_statistic(sample, n_simulations \div 2)

\* one iteration of the loop: what is appended to preds and to
\* confidence_levels
simulate_day(sample) ==
    [pred |-> median(sample),
     low |-> percentile(sample, 5),
     high |-> percentile(sample, 95)]

NoSimulation == [i |-> 0, last |-> [pred |-> 0, low |-> 0, high |-> 0]]

\* ------------------------------------------------------------------------
\* app.py: the /predict handler and the per-period models
\* ------------------------------------------------------------------------
\* the names bound in the module namespace of app.py that its functions
\* look up: the imports of lines 2-20 and model_loader of line 23
AppGlobals ==
    {"logging", "pd", "datetime", "np", "ModelLoader", "predict_stock",
     "convert_to_native_types", "stock_fetcher", "model_loader"}

\* the periods of the /predict handler, response key -> period
PredictPeriods ==
    [k \in {"next_hour", "next_day", "next_week"} |->
        IF k = "next_hour" THEN "1h" ELSE IF k = "next_day" THEN "1d" ELSE "1w"]

PredictKeys == <<"next_hour", "next_day", "next_week">>

\* the periods lines 212-217 know, and one they do not
KnownPeriods == {"1h", "1d", "1w"}

CallPeriods == {"1d", "1m"}

\* f"{symbol}_{period}_model"
model_name(symbol, period) == <<symbol, period>>

\* what an artifact can do: fail to load, raise in model.predict(future_X),
\* return an empty result, or return one value
ModelOutcomes ==
    [kind : {"unloadable", "raises", "empty"}, value : {0}]
        \cup [kind : {"value"}, value : {0 - MaxPred, MaxPred}]

\* the trained-model artifacts on disk, each with what it does: any of
\* the three models of one symbol, the other symbol has none
ArtifactSets ==
    UNION {[names -> ModelOutcomes] :
              names \in SUBSET {model_name("AAPL", p) :
                                  p \in {"1h", "1d", "1w"}}}

\* ModelLoader.load_model: the loaded model, FileNotFoundError when the
\* artifact is missing, Exception when joblib cannot load it
\* The object joblib.load builds is the artifact's content with an id
\* of its own (serial); reads counts the accesses to the models
\* directory made by the call.
NoModel == [kind |-> "none", value |-> 0, id |-> 0]

\* a variant that loads the artifact at every call
memoised_never(ldr, name) == FALSE

\* line 11: model_name in self.models
memoised(ldr, name) == name \in DOMAIN ldr.models

load_model(ldr, name) ==
    IF memoised(ldr, name)
    THEN [ldr |-> ldr, raised |-> "none", model |-> ldr.models[name],
          reads |-> 0]
    ELSE IF name \notin DOMAIN ldr.artifacts
    THEN [ldr |-> ldr, raised |-> "FileNotFoundError", model |-> NoModel,
          reads |-> 1]
    ELSE IF ldr.artifacts[name].kind = "unloadable"
    THEN [ldr |-> ldr, raised |-> "Exception", model |-> NoModel,
          reads |-> 2]
    ELSE LET model == [kind |-> ldr.artifacts[name].kind,
                       value |-> ldr.artifacts[name].value,
                       id |-> ldr.serial + 1]
         IN  [ldr |-> [ldr EXCEPT !.models = DictSet(@, name, model),
                                  !.serial = @ + 1],
              raised |-> "none", model |-> model, reads |-> 2]

PredictionError(st, ldr, msg) ==
    [st |-> st, ldr |-> ldr, raised |-> FALSE, value |-> None,
     low |-> None, high |-> None, error |-> msg]

\* a variant without the final except Exception: an unexpected error
\* leaves calculate_prediction as an exception
calculate_prediction_uncaught(st, mkt, ldr, symbol, period) ==
    [PredictionError(st, ldr, "") EXCEPT !.raised = TRUE]

\* calculate_prediction; value, low and high are in hundredths
calculate_prediction(st, mkt, ldr, symbol, period) ==
    IF "get_history" \notin AppGlobals
    THEN \* line 173: NameError, caught by except Exception
         PredictionError(st, ldr, "Internal error during prediction")
    ELSE
    LET r == get_stock_history(st, mkt, symbol, PredictDays)
        df == r.frame
        m == load_model(ldr, model_name(symbol, period))
        out == m.model
    IN  IF r.raised
        THEN PredictionError(r.st, ldr, "Internal error during prediction")
        ELSE IF empty(df) \/ ~df.hasClose
        THEN PredictionError(r.st, ldr, "Insufficient historical data")
        ELSE IF \A i \in 1..Len(df.rows) : df.rows[i] = NaN
        THEN PredictionError(r.st, ldr, "All price data is missing")
        ELSE IF m.raised = "FileNotFoundError"
        THEN PredictionError(r.st, ldr, "Prediction model not available")
        ELSE IF m.raised = "Exception"
        THEN PredictionError(r.st, m.ldr, "Internal error during prediction")
        ELSE IF period \notin KnownPeriods
        THEN \* line 222: ValueError, after the model was loaded
             PredictionError(r.st, m.ldr, "Invalid input for prediction")
        ELSE IF out.kind = "raises"
        THEN PredictionError(r.st, m.ldr, "Internal error during prediction")
        ELSE IF out.kind = "empty"
        THEN PredictionError(r.st, m.ldr, "Model prediction failed")
        ELSE [st |-> r.st, ldr |-> m.ldr, raised |-> FALSE,
              value |-> 100 * out.value, low |-> 95 * out.value,
              high |-> 105 * out.value,
              error |-> ""]

\* the artifacts on disk for direct calls of calculate_prediction: a
\* model of a known period and a file named after an unknown one
CallArtifactSets ==
    UNION {[names -> ModelOutcomes] :
              names \in SUBSET {model_name("AAPL", p) : p \in CallPeriods}}

\* POST /predict: the three periods one after the other; an exception
\* that leaves calculate_prediction ends the request with a 500
RECURSIVE predict_periods(_, _, _, _, _, _)
predict_periods(st, mkt, ldr, symbol, i, predictions) ==
    IF i > Len(PredictKeys)
    THEN [st |-> st, ldr |-> ldr, status |-> 200,
          keys |-> DOMAIN predictions, predictions |-> predictions]
    ELSE LET c == calculate_prediction(st, mkt, ldr, symbol,
                                       PredictPeriods[PredictKeys[i]])
         IN  IF c.raised
             THEN [st |-> c.st, ldr |-> c.ldr, status |-> 500,
                   keys |-> {"detail"}, predictions |-> NoResult]
             ELSE predict_periods(c.st, mkt, c.ldr, symbol, i + 1,
                     DictSet(predictions, PredictKeys[i],
                             [value |-> c.value, low |-> c.low,
                              high |-> c.high, error |-> c.error]))

predict(st, mkt, ldr, symbol) ==
    predict_periods(st, mkt, ldr, symbol, 1, NoResult)

\* ------------------------------------------------------------------------
\* model.get_history_with_retry
\* ------------------------------------------------------------------------
\* the arguments the function is called with: the default backoff factor
\* and one of an hour
RetryCounts == 0..MaxRetries

BackoffFactors == {2, CACHE_TTL_history}

\* backoff_factor ** attempt
RECURSIVE pow(_, _)
pow(b, e) == IF e = 0 THEN 1 ELSE b * pow(b, e - 1)

NoSleep == 0 - 1

\* a variant that waits after every failed attempt, the last included
wait_time_after_every_failure(retries, backoff_factor, attempt) ==
    pow(backoff_factor, attempt) * TicksPerSecond

\* lines 295-298: the time slept after the failed attempt, in ticks, or
\* NoSleep when the attempt was the last one
wait_time(retries, backoff_factor, attempt) ==
    IF attempt < retries - 1
    THEN pow(backoff_factor, attempt) * TicksPerSecond
    ELSE NoSleep

\* the for loop of line 290; trace[k] tells whether attempt k - 1 raised,
\* sleeps are the calls of time.sleep in order.  returned is the Python
\* type of the value returned: the loop that ends without a return makes
\* the function return None.
RECURSIVE retry_loop(_, _, _, _, _, _, _, _, _)
retry_loop(st, mkt, symbol, days, retries, backoff_factor, attempt, trace, sleeps) ==
    IF attempt >= retries
    THEN [st |-> st, raised |-> FALSE, returned |-> "NoneType",
          frame |-> EmptyFrame, trace |-> trace, sleeps |-> sleeps]
    ELSE LET r == get_stock_history(st, mkt, symbol, days)
             w == wait_time(retries, backoff_factor, attempt)
         IN  IF ~r.raised
             THEN [st |-> r.st, raised |-> FALSE, returned |-> "DataFrame",
                   frame |-> r.frame, trace |-> Append(trace, FALSE),
                   sleeps |-> sleeps]
             ELSE IF w # NoSleep
             THEN retry_loop([r.st EXCEPT !.now = @ + w], mkt, symbol, days,
                             retries, backoff_factor, attempt + 1,
                             Append(trace, TRUE), Append(sleeps, w))
             ELSE [st |-> r.st, raised |-> FALSE, returned |-> "DataFrame",
                   frame |-> EmptyFrame, trace |-> Append(trace, TRUE),
                   sleeps |-> sleeps]

get_history_with_retry(st, mkt, symbol, days, retries, backoff_factor) ==
    retry_loop(st, mkt, symbol, days, retries, backoff_factor, 0, <<>>, <<>>)

\* ------------------------------------------------------------------------
\* State
\* ------------------------------------------------------------------------
VARIABLES
    now,        \* time.time(), in ticks
    files,      \* the cache directory: cache path -> file
    log,        \* times of the calls made to the provider
    market,     \* what the provider holds for each symbol
    limiter,    \* the RateLimiter: max_calls, time_window, calls
    admitted,   \* times at which the rate-limited function was invoked
    trained,    \* model.trained
    fits,       \* number of model.fit calls so far
    ret,        \* the last operation, its arguments and its outcome
    ops,        \* operations performed
    ticks,      \* explicit clock advances performed
    threads,    \* position of each thread inside model.predict_stock
    sim,        \* position inside the simulation loop of predict_stock
    loader,     \* ModelLoader: the artifacts on disk and the models loaded
    pending,    \* the call that is inside the RateLimiter wrapper, if any
    callers,    \* per thread, its call inside the RateLimiter wrapper
    returned    \* per model name, the first object load_model returned

vars == <<now, files, log, market, limiter, admitted, trained, fits, ret,
          ops, ticks, threads, sim, loader, pending, callers, returned>>

Threads == 1..MaxThreads

IdleThread == [pc |-> "idle", symbol |-> "", raised |-> FALSE, error |-> ""]

\* the clock advances by half a second or by exactly one of the two TTLs
TickSteps ==
    {1, CACHE_TTL_latest * TicksPerSecond, CACHE_TTL_history * TicksPerSecond}

NoRet ==
    [op |-> "none", symbols |-> <<>>, days |-> 0, raised |-> FALSE,
     hit |-> FALSE, series |-> NoResult, prices |-> NoPrices,
     fetched |-> NoResult, upstream |-> 0, error |-> "", fit |-> FALSE,
     predicts |-> 0, pauses |-> 0, batches |-> <<>>, model |-> NoModel,
     payload |-> PyNoneValue, found |-> NoCacheFile, ttl |-> 0,
     loaded |-> [fetcher |-> PyNoneValue, manager |-> PyNoneValue],
     valid |-> [fetcher |-> FALSE, manager |-> FALSE],
     reads |-> 0, slept |-> 0, response |-> NoResponse,
     stats |-> NoStats, status |-> 0, keys |-> {},
     predictions |-> NoResult, period |-> "",
     retries |-> 0, backoff_factor |-> 0, trace |-> <<>>, sleeps |-> <<>>,
     returned |-> "", func_raised |-> FALSE, removed |-> {},
     looked |-> [age |-> NoAge, kind |-> "none"]]

State == [now |-> now, files |-> files, log |-> log]

Limiters ==
    [max_calls : 1..MaxMaxCalls, time_window : 1..MaxWindow, calls : {<<>>}]

\* a fresh process on an empty cache directory; the provider is asked
\* for the given symbols only
InitFull(symbols, frames, limiters, artifactSets) ==
    /\ loader \in [artifacts : artifactSets, models : {<<>>}, serial : {0}]
    /\ now = 0
    /\ files = [p \in CachePaths |-> NoFile]
    /\ log = <<>>
    /\ market \in [symbols -> Answers(frames)]
    /\ limiter \in limiters
    /\ admitted = <<>>
    /\ trained = FALSE
    /\ fits = 0
    /\ ret = NoRet
    /\ ops = 0
    /\ ticks = 0
    /\ threads = [t \in Threads |-> IdleThread]
    /\ sim = NoSimulation
    /\ pending = NoCall
    /\ callers = [t \in Threads |-> NoCall]
    /\ returned = <<>>

InitOn(symbols, frames, limiters) ==
    InitFull(symbols, frames, limiters, {<<>>})

InitWith(frames, limiters) == InitOn(Symbols, frames, limiters)

\* a component has performed an operation and may perform another
Busy ==
    \/ ops > 0 /\ ops < MaxOps
    \/ Len(admitted) > 0 /\ Len(admitted) < MaxLimited

\* time passes between two operations
Tick ==
    /\ ticks < MaxTicks
    /\ Busy
    /\ \E d \in TickSteps : now' = now + d
    /\ ticks' = ticks + 1
    /\ UNCHANGED <<returned, callers, pending, files, log, market, loader, sim, limiter, admitted, trained, fits, ret,
                   ops, threads>>

GetStockHistory ==
    /\ ops < MaxOps
    /\ \E symbol \in Symbols, days \in Days :
          LET r == get_stock_history(State, market, symbol, days)
          IN  /\ now' = r.st.now
              /\ files' = r.st.files
              /\ log' = r.st.log
              /\ ret' = [NoRet EXCEPT !.op = "get_stock_history",
                            !.symbols = <<symbol>>, !.days = days,
                            !.raised = r.raised, !.looked = r.looked,
                            !.series = IF r.raised THEN NoResult
                                       ELSE DictSet(NoResult, symbol, r.frame),
                            !.upstream = Len(r.st.log) - Len(log)]
    /\ ops' = ops + 1
    /\ UNCHANGED <<returned, callers, pending, market, loader, sim, limiter, admitted, trained, fits, ticks, threads>>

GetStockData ==
    /\ ops < MaxOps
    /\ \E symbols \in SymbolLists, days \in Days :
          LET r == get_stock_data(State, market, symbols, days)
          IN  /\ now' = r.st.now
              /\ files' = r.st.files
              /\ log' = r.st.log
              /\ ret' = [NoRet EXCEPT !.op = "get_stock_data",
                            !.symbols = symbols, !.days = days,
                            !.raised = r.raised, !.series = r.result,
                            !.upstream = Len(r.st.log) - Len(log)]
    /\ ops' = ops + 1
    /\ UNCHANGED <<returned, callers, pending, market, loader, sim, limiter, admitted, trained, fits, ticks, threads>>

LatestPricesOf(lists) ==
    /\ ops < MaxOps
    /\ \E symbols \in lists, saveOutcome \in SaveOutcomes :
          LET r == get_latest_prices(State, market, symbols, saveOutcome)
          IN  /\ now' = r.st.now
              /\ files' = r.st.files
              /\ log' = r.st.log
              /\ ret' = [NoRet EXCEPT !.op = "get_latest_prices",
                            !.symbols = symbols, !.days = LatestDays,
                            !.hit = r.hit, !.prices = r.prices,
                            !.looked = r.looked,
                            !.fetched = r.fetched, !.pauses = r.pauses,
                            !.batches = r.batches,
                            !.upstream = Len(r.st.log) - Len(log)]
    /\ ops' = ops + 1
    /\ UNCHANGED <<returned, callers, pending, market, loader, sim, limiter, admitted, trained, fits, ticks, threads>>

GetLatestPrices == LatestPricesOf(SymbolLists)

\* get_latest_prices on a request of up to MaxSymbols symbols
GetLatestPricesLong == LatestPricesOf(LongLists)

PredictStock ==
    /\ ops < MaxOps
    /\ \E symbol \in Symbols \cup InvalidSymbols :
          LET r == predict_stock(State, market, symbol, trained)
              h == get_stock_history(State, market, symbol, PredictDays)
          IN  /\ now' = r.st.now
              /\ files' = r.st.files
              /\ log' = r.st.log
              /\ trained' = r.trained
              /\ fits' = IF r.fit THEN fits + 1 ELSE fits
              /\ ret' = [NoRet EXCEPT !.op = "predict_stock",
                            !.symbols = <<symbol>>, !.days = PredictDays,
                            !.raised = r.raised, !.error = r.error,
                            !.fit = r.fit, !.predicts = r.predicts,
                            !.response =
                                IF r.predicts > 0
                                THEN predict_response(h.frame)
                                ELSE NoResponse,
                            !.fetched =
                                IF ~valid_symbol(symbol) THEN NoResult
                                ELSE DictSet(NoResult, symbol,
                                             [raised |-> h.raised,
                                              frame |-> h.frame,
                                              looked |-> h.looked]),
                            !.upstream = Len(r.st.log) - Len(log)]
    /\ ops' = ops + 1
    /\ UNCHANGED <<returned, callers, pending, market, loader, sim, limiter, admitted, ticks, threads>>

FetchStockStats ==
    /\ ops < MaxOps
    /\ \E symbol \in Symbols, days \in Days :
          LET r == fetch_stock_stats(State, market, symbol, days)
          IN  /\ now' = r.st.now
              /\ files' = r.st.files
              /\ log' = r.st.log
              /\ ret' = [NoRet EXCEPT !.op = "fetch_stock_stats",
                            !.symbols = <<symbol>>, !.days = days,
                            !.raised = r.raised, !.stats = r.stats,
                            !.fetched =
                                DictSet(NoResult, symbol,
                                        [raised |-> r.history.raised,
                                         frame |-> r.history.frame,
                                         looked |-> r.history.looked]),
                            !.upstream = Len(r.st.log) - Len(log)]
    /\ ops' = ops + 1
    /\ UNCHANGED <<returned, callers, pending, market, loader, sim, limiter, admitted, trained, fits, ticks,
                   threads>>

StockStats ==
    /\ ops < MaxOps
    /\ \E symbol \in Symbols, days \in Days :
          LET r == stock_stats(State, market, symbol, days)
          IN  /\ now' = r.st.now
              /\ files' = r.st.files
              /\ log' = r.st.log
              /\ ret' = [NoRet EXCEPT !.op = "stock_stats",
                            !.symbols = <<symbol>>, !.days = days,
                            !.status = r.status, !.keys = r.keys,
                            !.stats = r.stats,
                            !.upstream = Len(r.st.log) - Len(log)]
    /\ ops' = ops + 1
    /\ UNCHANGED <<returned, callers, pending, market, loader, sim, limiter, admitted, trained, fits, ticks,
                   threads>>

GetIndexes ==
    /\ ops < MaxOps
    /\ LET r == get_indexes(State, market)
       IN  /\ now' = r.st.now
           /\ files' = r.st.files
           /\ log' = r.st.log
           /\ ret' = [NoRet EXCEPT !.op = "get_indexes",
                         !.days = LatestDays, !.raised = r.raised,
                         !.status = r.status, !.keys = r.keys,
                         !.prices = r.prices,
                         !.upstream = Len(r.st.log) - Len(log)]
    /\ ops' = ops + 1
    /\ UNCHANGED <<returned, callers, pending, market, loader, sim, limiter, admitted, trained, fits, ticks,
                   threads>>

Predict ==
    /\ ops < MaxOps
    /\ \E symbol \in Symbols :
          LET r == predict(State, market, loader, symbol)
          IN  /\ now' = r.st.now
              /\ files' = r.st.files
              /\ log' = r.st.log
              /\ loader' = r.ldr
              /\ ret' = [NoRet EXCEPT !.op = "predict",
                            !.symbols = <<symbol>>, !.days = PredictDays,
                            !.status = r.status, !.keys = r.keys,
                            !.predictions = r.predictions,
                            !.upstream = Len(r.st.log) - Len(log)]
    /\ ops' = ops + 1
    /\ UNCHANGED <<returned, callers, pending, market, sim, limiter, admitted, trained, fits, ticks,
                   threads>>

\* the names asked of the ModelLoader
LoaderNames == {model_name("AAPL", p) : p \in {"1h", "1d"}}

\* what the models directory can hold for them
LoaderArtifactSets ==
    UNION {[names -> ModelOutcomes] : names \in SUBSET LoaderNames}

\* ModelLoader.load_model(name); the name is kept in ret.keys
LoadModel ==
    /\ ops < MaxOps
    /\ \E name \in LoaderNames :
          LET m == load_model(loader, name)
          IN  /\ loader' = m.ldr
              /\ ret' = [NoRet EXCEPT !.op = "load_model", !.keys = {name},
                            !.error = m.raised, !.raised = m.raised # "none",
                            !.model = m.model, !.reads = m.reads]
              /\ returned' = IF m.raised = "none" /\ name \notin DOMAIN returned
                             THEN DictSet(returned, name, m.model)
                             ELSE returned
    /\ ops' = ops + 1
    /\ UNCHANGED <<callers, pending, now, files, log, market, sim, limiter,
                   admitted, trained, fits, ticks, threads>>

\* a trained model is written to the models directory, new or in place
\* of the one there
StoreArtifact ==
    /\ Busy
    /\ \E name \in LoaderNames, artifact \in ModelOutcomes :
          /\ name \in DOMAIN loader.artifacts
                => loader.artifacts[name] # artifact
          /\ loader' = [loader EXCEPT
                            !.artifacts = DictSet(@, name, artifact)]
    /\ UNCHANGED <<returned, callers, pending, now, files, log, market, sim,
                   limiter, admitted, trained, fits, ret, ops, ticks, threads>>

\* an artifact is deleted from the models directory
RemoveArtifact ==
    /\ Busy
    /\ \E name \in DOMAIN loader.artifacts :
          loader' = [loader EXCEPT
                        !.artifacts = [n \in DOMAIN @ \ {name} |-> @[n]]]
    /\ UNCHANGED <<returned, callers, pending, now, files, log, market, sim,
                   limiter, admitted, trained, fits, ret, ops, ticks, threads>>

\* Each cache tests the file found at a cache path, then saves the
\* payload over it and loads it back
SaveThenLoad ==
    /\ ops < MaxOps
    /\ \E data \in Payloads, f \in FileStates,
          ttl \in {CACHE_TTL.latest, CACHE_TTL.history} :
          ret' = [NoRet EXCEPT !.op = "save_then_load",
                     !.payload = data, !.found = f, !.ttl = ttl,
                     !.valid = [fetcher |-> is_cache_valid(f, now, ttl),
                                manager |-> is_valid(f, now, ttl)],
                     !.loaded =
                        [fetcher |-> fetcher_load_from_cache(
                                        fetcher_save_to_cache(data, now)),
                         manager |-> load(save(data, now))]]
    /\ ops' = ops + 1
    /\ UNCHANGED <<returned, callers, pending, now, files, log, market,
                   loader, sim, limiter, admitted, trained, fits, ticks,
                   threads>>

\* CacheManager.clear_expired; removed are the files it reports removed
ClearExpired ==
    /\ ops < MaxOps
    /\ files' = clear_expired(files, now)
    /\ ret' = [NoRet EXCEPT !.op = "clear_expired",
                  !.removed = {cache_path \in DOMAIN files :
                                  /\ files[cache_path].exists
                                  /\ ~files'[cache_path].exists}]
    /\ ops' = ops + 1
    /\ UNCHANGED <<returned, callers, pending, now, log, market, loader, sim, limiter, admitted,
                   trained, fits, ticks, threads>>

\* one call of get_history_with_retry
GetHistoryWithRetry ==
    /\ ops < MaxOps
    /\ \E symbol \in Symbols, retries \in RetryCounts,
          backoff_factor \in BackoffFactors :
          LET r == get_history_with_retry(State, market, symbol, PredictDays,
                                          retries, backoff_factor)
          IN  /\ now' = r.st.now
              /\ files' = r.st.files
              /\ log' = r.st.log
              /\ ret' = [NoRet EXCEPT !.op = "get_history_with_retry",
                            !.symbols = <<symbol>>, !.days = PredictDays,
                            !.retries = retries,
                            !.backoff_factor = backoff_factor,
                            !.raised = r.raised, !.returned = r.returned,
                            !.trace = r.trace, !.sleeps = r.sleeps,
                            !.series = IF r.returned = "DataFrame"
                                       THEN DictSet(NoResult, symbol, r.frame)
                                       ELSE NoResult,
                            !.upstream = Len(r.st.log) - Len(log)]
    /\ ops' = ops + 1
    /\ UNCHANGED <<returned, callers, pending, market, loader, sim, limiter, admitted, trained, fits,
                   ticks, threads>>

\* one call of calculate_prediction(symbol, period)
CalculatePrediction ==
    /\ ops < MaxOps
    /\ \E symbol \in Symbols, period \in CallPeriods :
          LET r == calculate_prediction(State, market, loader, symbol, period)
          IN  /\ now' = r.st.now
              /\ files' = r.st.files
              /\ log' = r.st.log
              /\ loader' = r.ldr
              /\ ret' = [NoRet EXCEPT !.op = "calculate_prediction",
                            !.symbols = <<symbol>>, !.days = PredictDays,
                            !.period = period, !.raised = r.raised,
                            !.error = r.error,
                            !.predictions =
                                DictSet(NoResult, period,
                                        [value |-> r.value, low |-> r.low,
                                         high |-> r.high, error |-> r.error]),
                            !.upstream = Len(r.st.log) - Len(log)]
    /\ ops' = ops + 1
    /\ UNCHANGED <<returned, callers, pending, market, sim, limiter, admitted, trained, fits, ticks,
                   threads>>

\* one call of a function decorated with the RateLimiter; the function
\* itself returns or raises
LimitedCall ==
    /\ Len(admitted) < MaxLimited
    /\ \E funcRaises \in BOOLEAN :
          LET r == wrapped(limiter, now)
          IN  /\ limiter' = r.lim
              /\ now' = r.invoked
              /\ admitted' = Append(admitted, r.invoked)
              /\ ret' = [NoRet EXCEPT !.op = "wrapped", !.raised = funcRaises,
                            !.slept = r.slept]
    /\ UNCHANGED <<returned, callers, pending, files, log, market, loader, sim, trained, fits, ops, ticks, threads>>

\* The steps of one call through the wrapper.  Lines 44-52: the call
\* arrives, reads the clock, drops the old calls and looks at the window.
WrappedEnter ==
    /\ pending.pc = "idle"
    /\ Len(admitted) < MaxLimited
    /\ LET a == admission(limiter, now)
       IN  /\ limiter' = [limiter EXCEPT !.calls = a.calls]
           /\ pending' = a.call
    /\ UNCHANGED <<returned, callers, now, files, log, market, loader, sim, admitted, trained,
                   fits, ret, ops, ticks, threads>>

\* line 54: time.sleep(sleep_time) returns
WrappedSleep ==
    /\ pending.pc = "sleeping"
    /\ now' = now + pending.sleep_time
    /\ pending' = [pending EXCEPT !.pc = "ready"]
    /\ UNCHANGED <<returned, callers, files, log, market, loader, sim, limiter, admitted,
                   trained, fits, ret, ops, ticks, threads>>

\* lines 56-62: the call is recorded, func runs and returns or raises
WrappedInvoke ==
    /\ pending.pc = "ready"
    /\ \E func_raised \in BOOLEAN :
          /\ limiter' = [limiter EXCEPT !.calls =
                            record_call(@, pending.stamp, func_raised)]
          /\ ret' = [NoRet EXCEPT !.op = "wrapped",
                        !.func_raised = func_raised,
                        !.raised = wrapped_raises(func_raised),
                        !.slept = pending.sleep_time]
    /\ admitted' = Append(admitted, now)
    /\ pending' = NoCall
    /\ UNCHANGED <<returned, callers, now, files, log, market, loader, sim, trained, fits, ops,
                   ticks, threads>>

\* The same steps taken by several threads on one RateLimiter.  The
\* wrapper takes no lock: a thread can be between its admission check and
\* its append while another one enters.
CallerEnter(t) ==
    /\ callers[t].pc = "idle"
    /\ Len(admitted) + Cardinality({u \in Threads : callers[u].pc # "idle"})
          < MaxLimited
    /\ LET a == admission(limiter, now)
       IN  /\ limiter' = [limiter EXCEPT !.calls = a.calls]
           /\ callers' = [callers EXCEPT ![t] = a.call]
    /\ UNCHANGED <<returned, pending, now, files, log, market, loader, sim, admitted,
                   trained, fits, ret, ops, ticks, threads>>

\* line 54: time.sleep returns sleep_time after the thread read the clock,
\* or later when the clock has already moved past that
CallerSleep(t) ==
    /\ callers[t].pc = "sleeping"
    /\ now' = IF now > callers[t].stamp + callers[t].sleep_time
              THEN now
              ELSE callers[t].stamp + callers[t].sleep_time
    /\ callers' = [callers EXCEPT ![t].pc = "ready"]
    /\ UNCHANGED <<returned, pending, files, log, market, loader, sim, limiter,
                   admitted, trained, fits, ret, ops, ticks, threads>>

\* lines 56-62 in thread t
CallerInvoke(t) ==
    /\ callers[t].pc = "ready"
    /\ \E func_raised \in BOOLEAN :
          /\ limiter' = [limiter EXCEPT !.calls =
                            record_call(@, callers[t].stamp, func_raised)]
          /\ ret' = [NoRet EXCEPT !.op = "wrapped",
                        !.func_raised = func_raised,
                        !.raised = wrapped_raises(func_raised),
                        !.slept = callers[t].sleep_time]
    /\ admitted' = Append(admitted, now)
    /\ callers' = [callers EXCEPT ![t] = NoCall]
    /\ UNCHANGED <<returned, pending, now, files, log, market, loader, sim, trained,
                   fits, ops, ticks, threads>>

NextCallers ==
    \/ Tick
    \/ \E t \in Threads :
          CallerEnter(t) \/ CallerSleep(t) \/ CallerInvoke(t)

\* time passes while no call is inside the wrapper
TickBetweenCalls == pending.pc = "idle" /\ Tick

NextWrapped ==
    TickBetweenCalls \/ WrappedEnter \/ WrappedSleep \/ WrappedInvoke

\* ------------------------------------------------------------------------
\* model.predict_stock called from several threads: the steps of one call.
\* model and trained are module globals and no lock is taken anywhere.
\* ------------------------------------------------------------------------
\* lines 171-207: validation, history, features; the call ends there with
\* an error result or an exception, or goes on to the test of trained
ThreadCall(t) ==
    /\ threads[t].pc = "idle"
    /\ \E symbol \in Symbols :
          LET r == predict_stock(State, market, symbol, TRUE)
          IN  /\ now' = r.st.now
              /\ files' = r.st.files
              /\ log' = r.st.log
              /\ threads' =
                    [threads EXCEPT ![t] =
                        [pc |-> IF r.predicts = 0 THEN "done" ELSE "check",
                         symbol |-> symbol, raised |-> r.raised,
                         error |-> r.error]]
    /\ UNCHANGED <<returned, callers, pending, market, loader, sim, limiter, admitted, trained, fits, ret, ops, ticks>>

\* a variant that goes on to predict whatever the flag says
after_check_without_fit(isTrained) == "predicting"

\* line 211: where the call goes after the test of trained
after_check(isTrained) == IF isTrained THEN "predicting" ELSE "fitting"

\* line 211: if not trained, and the call of model.fit on line 212
ThreadCheck(t) ==
    /\ threads[t].pc = "check"
    /\ threads' = [threads EXCEPT ![t].pc = after_check(trained)]
    /\ fits' = IF trained THEN fits ELSE fits + 1
    /\ UNCHANGED <<returned, callers, pending, now, files, log, market, loader, sim, limiter, admitted, trained, ret,
                   ops, ticks>>

\* line 212: model.fit returns
ThreadFitted(t) ==
    /\ threads[t].pc = "fitting"
    /\ threads' = [threads EXCEPT ![t].pc = "fitted"]
    /\ UNCHANGED <<returned, callers, pending, now, files, log, market, loader, sim, limiter, admitted, trained, fits,
                   ret, ops, ticks>>

\* line 213: trained = True, then the first model.predict of line 228
ThreadSetTrained(t) ==
    /\ threads[t].pc = "fitted"
    /\ trained' = TRUE
    /\ threads' = [threads EXCEPT ![t].pc = "predicting"]
    /\ UNCHANGED <<returned, callers, pending, now, files, log, market, loader, sim, limiter, admitted, fits, ret,
                   ops, ticks>>

\* lines 223-259: the last model.predict returns, the response is built
ThreadReturn(t) ==
    /\ threads[t].pc = "predicting"
    /\ threads' = [threads EXCEPT ![t].pc = "done"]
    /\ UNCHANGED <<returned, callers, pending, now, files, log, market, loader, sim, limiter, admitted, trained, fits,
                   ret, ops, ticks>>

\* lines 223-236: one day of the simulation loop, on whatever the
\* n_simulations calls of model.predict return
SimulateDay ==
    /\ sim.i < HorizonDays
    /\ \E sample \in Samples :
          sim' = [i |-> sim.i + 1, last |-> simulate_day(sample)]
    /\ UNCHANGED <<returned, callers, pending, now, files, log, market, limiter, admitted, trained, fits,
                   ret, ops, ticks, threads, loader>>

NextThreads ==
    \E t \in Threads :
        \/ ThreadCall(t)
        \/ ThreadCheck(t)
        \/ ThreadFitted(t)
        \/ ThreadSetTrained(t)
        \/ ThreadReturn(t)

Next ==
    \/ Tick
    \/ GetStockHistory
    \/ GetStockData
    \/ GetLatestPrices
    \/ GetLatestPricesLong
    \/ LoadModel
    \/ SaveThenLoad
    \/ StoreArtifact
    \/ RemoveArtifact
    \/ PredictStock
    \/ FetchStockStats
    \/ StockStats
    \/ GetIndexes
    \/ Predict
    \/ CalculatePrediction
    \/ GetHistoryWithRetry
    \/ ClearExpired
    \/ LimitedCall
    \/ WrappedEnter
    \/ WrappedSleep
    \/ WrappedInvoke
    \/ NextCallers
    \/ NextThreads
    \/ SimulateDay

Init ==
    InitFull(Symbols \cup IndexTickers, ProviderFrames, Limiters,
             ArtifactSets \cup CallArtifactSets)

Spec == Init /\ [][Next]_vars

\* The components on their own: the history fetcher, the latest-price
\* batch, the rate limiter and the prediction engine.
DefaultLimiter == [max_calls |-> 1, time_window |-> 1, calls |-> <<>>]

InitHistory ==
    InitWith({EmptyFrame, RisingFrame, TimestampFrame}, {DefaultLimiter})

NextHistory == Tick \/ GetStockHistory \/ GetStockData

SpecHistory == InitHistory /\ [][NextHistory]_vars

InitLatest == InitWith({EmptyFrame} \cup ShortFrames, {DefaultLimiter})

NextLatest == Tick \/ GetLatestPrices

SpecLatest == InitLatest /\ [][NextLatest]_vars

InitLimiter == InitWith({EmptyFrame}, Limiters)

NextLimiter == Tick \/ LimitedCall

SpecLimiter == InitLimiter /\ [][NextLimiter]_vars

InitPredict ==
    InitWith({EmptyFrame, RisingFrame, NoCloseFrame, LongFrame,
              LongTimestampFrame, LongLastMissingFrame}, {DefaultLimiter})

NextPredict == Tick \/ PredictStock

SpecPredict == InitPredict /\ [][NextPredict]_vars

InitStats ==
    InitWith({EmptyFrame, RisingFrame, TimestampFrame, NoVolumeFrame,
              StatsMissingFrame}, {DefaultLimiter})

NextStats == Tick \/ FetchStockStats

SpecStats == InitStats /\ [][NextStats]_vars

\* the /stock-stats handler
NextStockStats == Tick \/ StockStats

SpecStockStats == InitStats /\ [][NextStockStats]_vars

\* the /indexes handler
InitIndexes ==
    InitOn(IndexTickers,
           {EmptyFrame, RisingFrame, TimestampFrame, LastMissingFrame,
            NoCloseFrame}, {DefaultLimiter})

NextIndexes == Tick \/ GetIndexes

SpecIndexes == InitIndexes /\ [][NextIndexes]_vars

\* the /predict handler
InitPredictApi ==
    InitFull(Symbols, {EmptyFrame, TimestampFrame}, {DefaultLimiter},
             ArtifactSets)

NextPredictApi == Tick \/ Predict

SpecPredictApi == InitPredictApi /\ [][NextPredictApi]_vars

\* the RateLimiter step by step; the process keeps running, time.sleep
\* returns and the wrapped function returns or raises
SpecWrapped ==
    /\ InitLimiter
    /\ [][NextWrapped]_vars
    /\ WF_vars(WrappedSleep)
    /\ WF_vars(WrappedInvoke)

\* the cache directory, written by get_latest_prices and cleaned by the
\* CacheManager
InitCacheManager ==
    InitWith({RisingFrame, TimestampFrame}, {DefaultLimiter})

NextCacheManager == Tick \/ GetLatestPrices \/ ClearExpired

SpecCacheManager == InitCacheManager /\ [][NextCacheManager]_vars

\* predict_stock on long series that rise, stay flat, or both
InitFeatures ==
    InitWith({EmptyFrame, LongFrame, LongTimestampFrame, FlatFrame,
              PlateauFrame}, {DefaultLimiter})

SpecFeatures == InitFeatures /\ [][NextPredict]_vars

\* the two fetch operations on one cache directory
\* the provider answers for every listed symbol but, in some
\* behaviours, for AAPL
InitListed ==
    /\ InitOn(ListedSymbols, {RisingFrame}, {DefaultLimiter})
    /\ \A s \in ListedSymbols \ {"AAPL"} :
          market[s] = [raises |-> FALSE, frame |-> RisingFrame]

\* load_model while the models directory changes
InitLoader ==
    InitFull(Symbols, {EmptyFrame}, {DefaultLimiter}, LoaderArtifactSets)

NextLoader == LoadModel \/ StoreArtifact \/ RemoveArtifact

SpecLoader == InitLoader /\ [][NextLoader]_vars

\* the two caches side by side
NextCaches == Tick \/ SaveThenLoad

SpecCaches == InitWith({EmptyFrame}, {DefaultLimiter}) /\ [][NextCaches]_vars

\* the calls follow one another; time passes inside them
NextBatches == GetLatestPricesLong

SpecBatches == InitListed /\ [][NextBatches]_vars

NextFetch == Tick \/ GetStockHistory \/ GetLatestPrices

SpecFetch == InitLatest /\ [][NextFetch]_vars

\* predict_stock called with any value as symbol; the provider has
\* nothing for the integer
InitValidation ==
    /\ InitOn(Symbols \cup {PyInt}, {EmptyFrame, LongFrame},
              {DefaultLimiter})
    /\ market[PyInt] = Raises

SpecValidation == InitValidation /\ [][NextPredict]_vars

\* one RateLimiter called from MaxThreads threads
SpecCallers == InitLimiter /\ [][NextCallers]_vars

\* get_history_with_retry
InitRetry ==
    InitWith({EmptyFrame, RisingFrame, TimestampFrame}, {DefaultLimiter})

NextRetry == Tick \/ GetHistoryWithRetry

SpecRetry == InitRetry /\ [][NextRetry]_vars

\* calculate_prediction called with any period
InitCalculate ==
    InitFull(Symbols, {EmptyFrame, TimestampFrame}, {DefaultLimiter},
             CallArtifactSets)

NextCalculate == Tick \/ CalculatePrediction

SpecCalculate == InitCalculate /\ [][NextCalculate]_vars

\* predict_stock called from MaxThreads threads of one process
InitThreads ==
    InitWith({EmptyFrame, LongFrame, LongTimestampFrame}, {DefaultLimiter})

SpecThreads == InitThreads /\ [][NextThreads]_vars

\* the simulation loop of one predict_stock call
InitSimulation == InitWith({LongFrame}, {DefaultLimiter})

NextSimulation == SimulateDay

SpecSimulation == InitSimulation /\ [][NextSimulation]_vars

\* ------------------------------------------------------------------------
\* Properties
\* ------------------------------------------------------------------------
Requested == {ret.symbols[i] : i \in 1..Len(ret.symbols)}

\* C1 (cache-hit short-circuit): a get_stock_history call that finds the
\* series saved by an earlier fetch of the same symbol and day-count, less
\* than 3600 seconds old, returns that series and does not call the provider.
C1_CacheHitShortCircuit ==
    (/\ ret.op = "get_stock_history"
     /\ ret.looked.kind = "split"
     /\ ret.looked.age >= 0
     /\ ret.looked.age < CACHE_TTL_history * TicksPerSecond)
    => /\ ~ret.raised
       /\ ret.upstream = 0
       /\ ret.series = DictSet(NoResult, ret.symbols[1],
              files[get_cache_path(ret.symbols[1], "history", ret.days)].frame)

\* C2 (throttle bound): at most max_calls invocations of the rate-limited
\* function fall within any sliding window of time_window seconds, that is,
\* any max_calls + 1 successive invocations span at least time_window.
C2_ThrottleBound ==
    \A i \in 1..Len(admitted) :
        i + limiter.max_calls <= Len(admitted)
        => admitted[i + limiter.max_calls] - admitted[i]
               >= limiter.time_window * TicksPerSecond

\* C3 (throttled data access): every call the data access layer makes to
\* the provider is preceded by a throttle admission of its own.
C3_ThrottledDataAccess == Len(log) <= Len(admitted)

\* C4 (partial success, never an exception): get_stock_data never raises
\* and returns one entry for each requested symbol, an empty series for a
\* symbol the provider has no rows for.
C4_PartialSuccess ==
    ret.op = "get_stock_data"
    => /\ ~ret.raised
       /\ DOMAIN ret.series = Requested
       /\ \A s \in Requested :
             (market[s].raises \/ empty(market[s].frame))
             => empty(ret.series[s])

\* C5: get_latest_prices returns a mapping whose key set is exactly the
\* requested symbols, whatever calls came before.
C5_LatestKeysAreRequested ==
    ret.op = "get_latest_prices" => DOMAIN ret.prices = Requested

\* C6: on a cache miss get_latest_prices maps each requested symbol to the
\* close of the last row of the series its fetch returned, when that series
\* is non-empty, has a Close column and the value is not NaN, and to None
\* otherwise, also when the fetch of that symbol raised; each price depends
\* on the fetch of its own symbol only.
C6_LatestPriceProjection ==
    (ret.op = "get_latest_prices" /\ ~ret.hit)
    => /\ DOMAIN ret.prices = Requested
       /\ DOMAIN ret.fetched = Requested
       /\ \A s \in Requested :
            LET f == ret.fetched[s]
                n == Len(f.frame.rows)
            IN  /\ ~f.raised => f.frame \in {EmptyFrame, reset_index(market[s].frame)}
                /\ ret.prices[s] =
                      IF ~f.raised /\ n > 0 /\ f.frame.hasClose
                            /\ f.frame.rows[n] # NaN
                      THEN f.frame.rows[n]
                      ELSE None

\* a miss over two symbols where the fetch of one raised, its price is None,
\* and the other symbol still got the close of its last row
C6_Witness ==
    /\ ret.op = "get_latest_prices"
    /\ ~ret.hit
    /\ Len(ret.symbols) = 2
    /\ \E s, t \in Requested :
          /\ s # t
          /\ ret.fetched[s].raised
          /\ ret.prices[s] = None
          /\ ~ret.fetched[t].raised
          /\ ret.prices[t] = MaxRows

\* C7 (stale data is never served): a lookup answers from the cache only
\* when the entry is younger than its class TTL, 300 seconds for the
\* latest-price entry and 3600 seconds for a history entry; an entry of TTL
\* age or more is treated as absent and every requested symbol is fetched
\* again, each fetch that finds its history entry of TTL age or more calling
\* the provider.
C7_NoStaleData ==
    ret.op = "get_latest_prices"
    => /\ ret.hit
            => /\ ret.looked.age >= 0
               /\ ret.looked.age < CACHE_TTL_latest * TicksPerSecond
       /\ ret.looked.age >= CACHE_TTL_latest * TicksPerSecond
            => ~ret.hit /\ DOMAIN ret.fetched = Requested
       /\ ~ret.hit
            => /\ \A s \in DOMAIN ret.fetched :
                     ret.fetched[s].looked.age
                         >= CACHE_TTL_history * TicksPerSecond
                     => ~ret.fetched[s].raised
               /\ ret.upstream =
                     Cardinality({s \in DOMAIN ret.fetched :
                                     ~ret.fetched[s].raised})

\* a readable latest-price entry older than 300 seconds was looked up and
\* not served, and the fetch that followed found a readable history entry of
\* exactly 3600 seconds and called the provider
C7_Witness ==
    /\ ret.op = "get_latest_prices"
    /\ ret.looked.kind = "prices"
    /\ ret.looked.age >= CACHE_TTL_latest * TicksPerSecond
    /\ ~ret.hit
    /\ \E s \in DOMAIN ret.fetched :
          /\ ret.fetched[s].looked.age = CACHE_TTL_history * TicksPerSecond
          /\ ret.fetched[s].looked.kind = "split"
          /\ ~ret.fetched[s].raised
    /\ ret.upstream >= 1

\* C8 (atomic put): no cache file ever holds a partially written payload.
C8_AtomicPut == \A p \in CachePaths : files[p].kind # "partial"

C11_GuardedFit ==
    /\ fits <= 1
    /\ ~ \E a, b \in Threads :
            threads[a].pc = "fitting" /\ threads[b].pc = "predicting"

\* rows of the history whose Close is a number
valid_closes(df) ==
    IF df.hasClose
    THEN Cardinality({i \in 1..Len(df.rows) : df.rows[i] # NaN})
    ELSE 0

\* the history get_history handed to the predict_stock call just made
PredictHistory == ret.fetched[ret.symbols[1]]

PredictedOn ==
    /\ ret.op = "predict_stock"
    /\ ret.symbols[1] \in DOMAIN ret.fetched
    /\ ~PredictHistory.raised

\* C12: predict_stock on a history with fewer than 50 usable rows returns
\* the insufficient-data error result, calls neither model.fit nor
\* model.predict, and leaves the trained flag as it was.
C12_InsufficientData ==
    [][(/\ ops' = ops + 1
        /\ PredictedOn'
        /\ valid_closes(PredictHistory'.frame) < MA50Window)
       => (/\ ~ret'.raised
           /\ ret'.error \in {"Insufficient data", "No data available"}
           /\ ~ret'.fit
           /\ ret'.predicts = 0
           /\ trained' = trained
           /\ fits' = fits)]_vars

\* C13: whenever the 180-day history is empty or has no Close column,
\* predict_stock returns an error result without a numeric forecast and
\* does not raise.
C13_NoCloseIsErrorResult ==
    (/\ PredictedOn
     /\ empty(PredictHistory.frame) \/ ~PredictHistory.frame.hasClose)
    => (/\ ~ret.raised
        /\ ret.error # ""
        /\ ret.predicts = 0)

\* C14: for each of the 7 days, the interval appended to confidence_levels
\* encloses the point forecast appended to preds:
\* low <= predicted price <= high, whatever model.predict returned.
C14_BandEnclosesForecast ==
    sim.i > 0 =>
        /\ sim.last.low <= sim.last.pred
        /\ sim.last.pred <= sim.last.high

C14_Witness ==
    /\ sim.i = HorizonDays
    /\ sim.last.low < sim.last.pred
    /\ sim.last.pred < sim.last.high

PredictSucceeded ==
    /\ PredictedOn
    /\ ~ret.raised
    /\ ret.error = ""

StatsHistory == ret.fetched[ret.symbols[1]]

\* C16: fetch_stock_stats never raises; on a non-empty series with Close,
\* High, Low and Volume columns it returns the values of the last row (None
\* for a missing one) and no error; on an empty series or one that lacks a
\* column it returns four None values and an error message.
C16_StatsOfLastRow ==
    ret.op = "fetch_stock_stats" =>
        /\ ~ret.raised
        /\ ~StatsHistory.raised =>
              LET df == StatsHistory.frame
                  complete == ~empty(df) /\ df.hasClose
                              /\ StatsColumns \subseteq df.columns
                  value(x) == IF x = NaN THEN None ELSE x
              IN  /\ complete =>
                        /\ ret.stats.last = value(df.rows[Len(df.rows)])
                        /\ ret.stats.high = value(df.high)
                        /\ ret.stats.low = value(df.low)
                        /\ ret.stats.volume = value(df.volume)
                        /\ ret.stats.error = ""
                  /\ ~complete =>
                        /\ ret.stats.last = None /\ ret.stats.high = None
                        /\ ret.stats.low = None /\ ret.stats.volume = None
                        /\ ret.stats.error # ""

\* a complete series whose last row has a close and a low but neither a
\* high nor a volume
C16_Witness ==
    /\ ret.op = "fetch_stock_stats"
    /\ ~StatsHistory.raised
    /\ StatsHistory.frame = reset_index(StatsMissingFrame)
    /\ ret.stats.last = MaxRows
    /\ ret.stats.high = None
    /\ ret.stats.error = ""

\* C17: for every symbol and every cache state the /stock-stats handler
\* answers with status 200 and a JSON object that has the key last or the
\* key error; it never answers with a server error.
C17_StockStatsAlways200 ==
    ret.op = "stock_stats" =>
        /\ ret.status = 200
        /\ ret.keys \cap {"last", "error"} # {}

\* C18: the /indexes handler always answers with status 200 and a JSON
\* object: one entry per index, a price or null, when data access succeeds,
\* and the empty object when data access raises.
C18_IndexesAlways200 ==
    ret.op = "get_indexes" =>
        /\ ret.status = 200
        /\ ret.raised => ret.keys = {}
        /\ ~ret.raised =>
              /\ ret.keys = DOMAIN INDEXES
              /\ \A n \in DOMAIN INDEXES : ret.prices[n] # NaN

\* the provider holds a series with at least one close for the symbol
UsableHistory(s) ==
    /\ ~market[s].raises
    /\ market[s].frame.hasClose
    /\ \E i \in 1..Len(market[s].frame.rows) : market[s].frame.rows[i] # NaN

\* C19: in a /predict request on a symbol with usable history, each period
\* whose artifact <symbol>_<period>_model is missing comes back with value
\* None and the 'Prediction model not available' error, and each period
\* whose artifact exists and predicts comes back with a numeric value.
C19_ModelUnavailablePerPeriod ==
    (ret.op = "predict" /\ UsableHistory(ret.symbols[1])) =>
        /\ ret.status = 200
        /\ \A i \in 1..Len(PredictKeys) :
              LET k == PredictKeys[i]
                  name == model_name(ret.symbols[1], PredictPeriods[k])
              IN  /\ name \notin DOMAIN loader.artifacts =>
                        /\ ret.predictions[k].value = None
                        /\ ret.predictions[k].error
                               = "Prediction model not available"
                  /\ (name \in DOMAIN loader.artifacts
                      /\ loader.artifacts[name].kind = "value") =>
                        ret.predictions[k].value # None

\* C20: the /predict handler answers with exactly the keys next_hour,
\* next_day and next_week for every symbol; a period in which anything
\* went wrong carries value None and an error string, and never aborts
\* the request.
C20_PredictAlwaysThreeKeys ==
    ret.op = "predict" =>
        /\ ret.status = 200
        /\ ret.keys = {"next_hour", "next_day", "next_week"}
        /\ DOMAIN ret.predictions = ret.keys
        /\ \A k \in ret.keys :
              \/ ret.predictions[k].value = None
                    /\ ret.predictions[k].error # ""
              \/ ret.predictions[k].value # None
                    /\ ret.predictions[k].error = ""

\* a request on a symbol with history and with its three artifacts on
\* disk, in which every period failed and was reported as an error
C20_Witness ==
    /\ ret.op = "predict"
    /\ UsableHistory(ret.symbols[1])
    /\ \A k \in DOMAIN PredictPeriods :
          /\ model_name(ret.symbols[1], PredictPeriods[k])
                \in DOMAIN loader.artifacts
          /\ ret.predictions[k].value = None
          /\ ret.predictions[k].error = "Internal error during prediction"

\* C21 (invalid period is a validation failure): calculate_prediction
\* called with a period outside {1h, 1d, 1w} returns the 'Invalid input for
\* prediction' marker, whatever the history and whatever artifacts exist.
C21_InvalidPeriodIsValidationFailure ==
    (ret.op = "calculate_prediction" /\ ret.period \notin KnownPeriods)
    => /\ ~ret.raised
       /\ ret.error = "Invalid input for prediction"

\* time.sleep called with each of the given durations in turn
RECURSIVE total_sleep(_)
total_sleep(sleeps) ==
    IF sleeps = <<>> THEN 0 ELSE Head(sleeps) + total_sleep(Tail(sleeps))

\* C22 (bounded retry with backoff): get_history_with_retry makes at most
\* retries attempts; an attempt that does not raise is the last one and its
\* result, computed on the state the sleeps before it leave, is what the
\* call returns and leaves behind; when every attempt raises, retries
\* attempts are made; the sleep after failed attempt k (from 0) lasts
\* backoff_factor^k seconds and there is one after every failed attempt
\* except the last attempt.
C22_BoundedRetryWithBackoff ==
    [][(ops' = ops + 1 /\ ret'.op = "get_history_with_retry")
       => LET n == Len(ret'.trace)
              symbol == ret'.symbols[1]
              before == [State EXCEPT
                            !.now = now + total_sleep(ret'.sleeps)]
              last == get_stock_history(before, market, symbol, ret'.days)
          IN  /\ n <= ret'.retries
              /\ \A k \in 1..n : ~ret'.trace[k] => k = n
              /\ (\A k \in 1..n : ret'.trace[k]) => n = ret'.retries
              /\ Len(ret'.sleeps) = IF n = 0 THEN 0 ELSE n - 1
              /\ \A k \in 1..Len(ret'.sleeps) :
                    ret'.sleeps[k] =
                        pow(ret'.backoff_factor, k - 1) * TicksPerSecond
              /\ (n > 0 /\ ~ret'.trace[n])
                    => /\ ~last.raised
                       /\ ret'.returned = "DataFrame"
                       /\ ret'.series = DictSet(NoResult, symbol, last.frame)
                       /\ now' = last.st.now
                       /\ files' = last.st.files
                       /\ log' = last.st.log
     ]_vars

\* two attempts raise, the process sleeps after each, the third returns
C22_Witness ==
    /\ ret.op = "get_history_with_retry"
    /\ Len(ret.trace) = 3
    /\ ret.trace[1] /\ ret.trace[2] /\ ~ret.trace[3]
    /\ Len(ret.sleeps) = 2
    /\ \E s \in Symbols : s \in DOMAIN ret.series /\ ~empty(ret.series[s])

\* C23 (retry exhaustion yields an empty series): for every retries >= 0,
\* a get_history_with_retry call none of whose attempts succeeds returns
\* an empty price series and does not raise.
C23_ExhaustionYieldsEmptySeries ==
    (/\ ret.op = "get_history_with_retry"
     /\ \A k \in 1..Len(ret.trace) : ret.trace[k])
    => /\ ~ret.raised
       /\ ret.returned = "DataFrame"
       /\ ret.series = DictSet(NoResult, ret.symbols[1], EmptyFrame)

\* C24 (backpressure, not rejection): with max_calls >= 1, a call that has
\* entered the RateLimiter wrapper eventually leaves it having invoked the
\* wrapped function, one invocation per call, and the wrapper raises
\* exactly when the function did.
C24_Backpressure ==
    /\ \A n \in 0..(MaxLimited - 1) :
          (pending.pc # "idle" /\ Len(admitted) = n)
              ~> (pending.pc = "idle" /\ Len(admitted) = n + 1)
    /\ [][/\ (pending.pc # "idle" /\ pending'.pc = "idle")
               => /\ Len(admitted') = Len(admitted) + 1
                  /\ ret'.raised = ret'.func_raised
          /\ Len(admitted') # Len(admitted)
               => pending.pc = "ready" /\ pending'.pc = "idle"]_vars

\* a call found the window full, slept, and the function ran and raised
C24_Witness ==
    /\ ret.op = "wrapped"
    /\ ret.slept > 0
    /\ ret.func_raised
    /\ pending.pc = "idle"
    /\ Len(admitted) = MaxLimited

\* the recorded calls that are younger than the window at time t
in_window(lim, t) ==
    {k \in 1..Len(lim.calls) :
        t - lim.calls[k] < lim.time_window * TicksPerSecond}

\* C25 (failed calls consume budget): the wrapper leaves the timestamp of
\* a call in calls whether the wrapped function returns or raises, and the
\* next call is made to sleep exactly when max_calls recorded calls, failed
\* ones included, are younger than the window.
C25_FailedCallsConsumeBudget ==
    [][/\ (pending.pc = "ready" /\ pending'.pc = "idle")
            => limiter'.calls = Append(limiter.calls, pending.stamp)
       /\ (pending.pc = "idle" /\ pending'.pc # "idle")
            => /\ Len(limiter'.calls) = Cardinality(in_window(limiter, now))
               /\ pending'.pc = "sleeping"
                     <=> Cardinality(in_window(limiter, now))
                            >= limiter.max_calls
      ]_vars

\* the only call made so far raised, and the next call sleeps because of it
C25_Witness ==
    /\ ret.op = "wrapped"
    /\ ret.func_raised
    /\ Len(admitted) = 1
    /\ limiter.calls = <<admitted[1]>>
    /\ pending.pc = "sleeping"

\* the recorded calls that lie within [t - time_window, t]
in_closed_window(lim, t) ==
    {k \in 1..Len(lim.calls) :
        /\ t - lim.calls[k] >= 0
        /\ t - lim.calls[k] <= lim.time_window * TicksPerSecond}

\* the admission check of a call sees calls with its old entries removed
\* from the front
PrunedBeforeAdmission ==
    (pending.pc = "idle" /\ pending'.pc # "idle")
    => /\ \E j \in 1..(Len(limiter.calls) + 1) :
             limiter'.calls = SubSeq(limiter.calls, j, Len(limiter.calls))
       /\ in_window(limiter', now) = 1..Len(limiter'.calls)

\* C29 as stated (throttle-window invariant): when a call through the
\* wrapper has proceeded, at most max_calls of the timestamps in calls lie
\* within [now - time_window, now], and old timestamps are removed from
\* the front before each admission check.
C29_WindowCountClosed ==
    [][/\ (pending.pc = "ready" /\ pending'.pc = "idle")
            => Cardinality(in_closed_window(limiter', now'))
                  <= limiter.max_calls
       /\ PrunedBeforeAdmission]_vars

\* C29, amended: when a call through the wrapper has proceeded, at most
\* max_calls of the timestamps in calls are younger than time_window, and
\* the timestamps of age time_window or more are removed from the front
\* before each admission check.
C29_WindowCount ==
    [][/\ (pending.pc = "ready" /\ pending'.pc = "idle")
            => Cardinality(in_window(limiter', now')) <= limiter.max_calls
       /\ PrunedBeforeAdmission]_vars

\* a call that slept has returned: calls holds max_calls + 1 timestamps,
\* the oldest of them exactly time_window old
C29_Witness ==
    /\ ret.op = "wrapped"
    /\ ret.slept > 0
    /\ pending.pc = "idle"
    /\ Len(limiter.calls) = limiter.max_calls + 1
    /\ admitted # <<>>
    /\ now = admitted[Len(admitted)]
    /\ now - limiter.calls[1] = limiter.time_window * TicksPerSecond

\* C30 (the timestamp of a blocked call): a call that finds the window
\* full blocks for time_window - (now - oldest timestamp) and the
\* timestamp recorded for it is the time at which it proceeds.
C30_RecordsTimeOfProceeding ==
    [][/\ (pending.pc = "idle" /\ pending'.pc = "sleeping")
            => pending'.sleep_time =
                  limiter.time_window * TicksPerSecond
                     - (now - limiter'.calls[1])
       /\ (pending.pc = "ready" /\ pending'.pc = "idle"
              /\ pending.sleep_time > 0)
            => limiter'.calls[Len(limiter'.calls)] = now
      ]_vars

\* C26 (cache round trip): when get_stock_history has fetched a non-empty
\* price series and saved it, load_from_cache on the same path yields a
\* price series with the same dates and closes, row for row.
C26_CacheRoundTrip ==
    (/\ ret.op = "get_stock_history"
     /\ ~ret.raised
     /\ ret.upstream = 1
     /\ ~empty(ret.series[ret.symbols[1]]))
    => LET saved == ret.series[ret.symbols[1]]
           cache_path == get_cache_path(ret.symbols[1], "history", ret.days)
           data == load_from_cache(files[cache_path])
       IN  /\ data.pytype = "DataFrame"
           /\ data.frame.hasDate = saved.hasDate
           /\ data.frame.hasClose = saved.hasClose
           /\ data.frame.rows = saved.rows

\* what a lookup of a cache path at time t reports: a miss, or the content
\* of the file when it is younger than the TTL of its class
ClassTTL(cache_path) ==
    IF cache_path[2] = "latest" THEN CACHE_TTL_latest ELSE CACHE_TTL_history

lookup(fs, cache_path, t) ==
    IF is_cache_valid(fs[cache_path], t, ClassTTL(cache_path))
    THEN load_from_cache(fs[cache_path])
    ELSE LoadedNone

\* how long after clear_expired a lookup is made, in ticks
LookupDelays ==
    {0, 1, CACHE_TTL_latest * TicksPerSecond,
     CACHE_TTL_history * TicksPerSecond}

non_decreasing(c) ==
    \A i \in 2..Len(c) : c[i] # NaN /\ c[i - 1] # NaN /\ c[i] >= c[i - 1]

\* C28 (RSI without losses): in the history predict_stock works on, every
\* 14-row window whose average loss is zero has an RSI of 100, so that in
\* a monotonically increasing series every row from the 50th on has an RSI
\* above 50 and is kept by dropna, and the prediction goes ahead.
C28_RsiWithoutLosses ==
    (PredictedOn /\ PredictHistory.frame.hasClose)
    => LET df == PredictHistory.frame
           c == df.rows
       IN  /\ \A i \in RSIWindow..Len(c) :
                 window_loss(c, i, RSIWindow) = 0
                 => LET rsi == calculate_rsi(c, i)
                    IN  ~rsi.isna /\ rsi.num = 100 * rsi.den
           /\ (non_decreasing(c) /\ Len(c) >= MA50Window)
                 => /\ \A i \in MA50Window..Len(c) :
                          LET rsi == calculate_rsi(c, i)
                          IN  /\ ~rsi.isna
                              /\ rsi.num > 50 * rsi.den
                              /\ i \in usable_rows(df)
                    /\ ~ret.raised
                    /\ ret.error = ""

\* the threads that passed the admission check without sleeping and have
\* not recorded their call yet
AdmittedUnrecorded ==
    {t \in Threads : callers[t].pc = "ready" /\ callers[t].sleep_time = 0}

\* C31 (concurrent admissions do not race): with several threads calling
\* through one RateLimiter, calls stays ordered oldest first, and the
\* threads let through without blocking, together with the calls already
\* recorded, never exceed max_calls: no free slot lets two callers in.
C31_ExclusiveAdmission ==
    /\ \A k \in 2..Len(limiter.calls) :
          limiter.calls[k - 1] <= limiter.calls[k]
    /\ AdmittedUnrecorded # {}
          => Len(limiter.calls) + Cardinality(AdmittedUnrecorded)
                <= limiter.max_calls

\* the call just made ended without data: an empty series from
\* get_stock_history, or prices that are all absent from a
\* get_latest_prices call that was not answered from the cache
NoDataHistory ==
    /\ ret'.op = "get_stock_history"
    /\ ~ret'.raised
    /\ empty(ret'.series[ret'.symbols[1]])

NoDataLatest ==
    /\ ret'.op = "get_latest_prices"
    /\ ~ret'.hit
    /\ \A s \in DOMAIN ret'.prices : ret'.prices[s] = None

\* C32 (no cache write without data): a get_stock_history or
\* get_latest_prices call that ends with a no-data result leaves every
\* cache file, its payload and its modification time as they were.
C32_NoWriteWithoutData ==
    [][(ops' = ops + 1 /\ (NoDataHistory \/ NoDataLatest))
       => files' = files]_vars

\* the calls of model.fit that have returned
FitsCompleted ==
    fits - Cardinality({t \in Threads : threads[t].pc = "fitting"})

\* C33 (no prediction before fitting): whenever a predict_stock call is
\* at its calls of model.predict, a model.fit has returned and trained is
\* True.
C33_NoPredictBeforeFit ==
    \A t \in Threads :
        threads[t].pc = "predicting" => (trained /\ FitsCompleted >= 1)

\* one call is predicting on the fit made by another call
C33_Witness ==
    \E t, u \in Threads :
        /\ t # u
        /\ threads[t].pc = "predicting"
        /\ threads[u].pc = "done" /\ threads[u].error = ""
        /\ ~threads[u].raised
        /\ fits = 1

\* C34 (invalid symbol input is rejected before any work): predict_stock
\* called with an empty or non-string symbol returns the 'Invalid symbol
\* input' error result without calling the provider, without changing a
\* cache file or letting time pass, and without a model.fit, a
\* model.predict or a change of trained.
C34_InvalidSymbolRejected ==
    [][(/\ ops' = ops + 1
        /\ ret'.op = "predict_stock"
        /\ ret'.symbols[1] \in InvalidSymbols)
       => /\ ~ret'.raised
          /\ ret'.error = "Invalid symbol input"
          /\ ret'.upstream = 0 /\ log' = log
          /\ files' = files
          /\ now' = now
          /\ ~ret'.fit /\ ret'.predicts = 0
          /\ fits' = fits
          /\ trained' = trained
     ]_vars

\* a non-string symbol was turned away by a process whose model is fitted
C34_Witness ==
    /\ ret.op = "predict_stock"
    /\ ret.symbols = <<PyInt>>
    /\ ret.error = "Invalid symbol input"
    /\ trained
    /\ log # <<>>

RECURSIVE concat(_)
concat(seqs) == IF seqs = <<>> THEN <<>> ELSE Head(seqs) \o concat(Tail(seqs))

\* ceil(n / b) for n >= 1
ceil_div(n, b) == (n + b - 1) \div b

\* C35 (inter-batch pause): on a cache miss get_latest_prices processes
\* the symbols in consecutive batches of batch_size (the last one may be
\* shorter), each symbol in one batch and in request order, and pauses
\* ceil(n/b) - 1 times, one second each at least; a request served from
\* the cache pauses never and takes no time.
C35_InterBatchPause ==
    [][(ops' = ops + 1 /\ ret'.op = "get_latest_prices")
       => LET n == Len(ret'.symbols)
              batches == ret'.batches
          IN  IF ret'.hit
              THEN ret'.pauses = 0 /\ batches = <<>> /\ now' = now
              ELSE /\ concat(batches) = ret'.symbols
                   /\ Len(batches) = ceil_div(n, batch_size)
                   /\ \A k \in 1..Len(batches) :
                         /\ Len(batches[k]) >= 1
                         /\ Len(batches[k]) <= batch_size
                         /\ k < Len(batches)
                               => Len(batches[k]) = batch_size
                   /\ ret'.pauses = ceil_div(n, batch_size) - 1
                   /\ now' - now >= ret'.pauses * TicksPerSecond
     ]_vars

\* a request of three batches was fetched with two pauses
C35_Witness ==
    /\ ret.op = "get_latest_prices"
    /\ ~ret.hit
    /\ Len(ret.symbols) = 2 * batch_size + 1
    /\ ret.pauses = 2

\* C36 (an upstream failure is retried): a get_history_with_retry call
\* with retries >= 1 for a symbol on which the provider raises at every
\* call calls the provider retries times and then returns the empty
\* series.
C36_UpstreamFailureRetried ==
    [][(/\ ops' = ops + 1
        /\ ret'.op = "get_history_with_retry"
        /\ ret'.retries >= 1
        /\ market[ret'.symbols[1]].raises
        /\ ret'.upstream >= 1)
       => /\ ret'.upstream = ret'.retries
          /\ ret'.series = DictSet(NoResult, ret'.symbols[1], EmptyFrame)
     ]_vars

\* C37 (ModelLoader memoisation): once load_model(name) has succeeded,
\* every later load_model(name) returns the identical object without an
\* access to the models directory, whatever the directory holds by then;
\* a load_model that raises leaves the models map as it was, and
\* load_model(name) of a name that has not been loaded succeeds when a
\* loadable artifact exists, whether or not earlier calls failed.
C37_LoaderMemoisation ==
    [][(ops' = ops + 1 /\ ret'.op = "load_model")
       => \A name \in ret'.keys :
             /\ name \in DOMAIN returned
                   => /\ ~ret'.raised
                      /\ ret'.model = returned[name]
                      /\ ret'.reads = 0
                      /\ loader' = loader
             /\ ret'.raised => loader'.models = loader.models
             /\ (/\ name \notin DOMAIN returned
                 /\ name \in DOMAIN loader.artifacts
                 /\ loader.artifacts[name].kind # "unloadable")
                   => /\ ~ret'.raised
                      /\ ret'.model.kind = loader.artifacts[name].kind
                      /\ ret'.model.value = loader.artifacts[name].value
     ]_vars

\* a model was returned again after its artifact was replaced
C37_Witness ==
    /\ ret.op = "load_model"
    /\ ~ret.raised
    /\ ret.reads = 0
    /\ \E name \in ret.keys :
          /\ name \in DOMAIN returned
          /\ name \in DOMAIN loader.artifacts
          /\ loader.artifacts[name].kind # ret.model.kind

\* C38 (the two cache implementations agree): for every payload and every
\* file found, CacheManager.save followed by CacheManager.load returns
\* the value that stock_fetcher.save_to_cache followed by
\* stock_fetcher.load_from_cache returns, and CacheManager.is_valid
\* answers as stock_fetcher.is_cache_valid does.
C38_CachesAgree ==
    ret.op = "save_then_load"
    => /\ ret.loaded.manager = ret.loaded.fetcher
       /\ ret.valid.manager = ret.valid.fetcher

====
